---- MODULE Spec2Model ----
(***************************************************************************)
(* The agent-facing API server of evergreen (service/api.go): the          *)
(* authentication gate (checkTask, checkHost), the route table built by    *)
(* Handler(), the task handlers behind the gate and the provisioning       *)
(* callback hostReady, over a small store of tasks and hosts; with them    *)
(* the global lock, the host event helpers, and NewIntent and CloudStatus  *)
(* of cloud/cloud.go, each under a specification of its own.               *)
(***************************************************************************)
EXTENDS Integers, Sequences, FiniteSets, TLC

\* ------------------------------------------------------------------ bounds

\* number of requests the server serves in one behaviour
MaxRequests == 1
\* how many bytes below / above the test-log cap the request bodies range
MaxUnder == 1
MaxOver == 1
\* number of concurrent callers of getGlobalLock
MaxCallers == 3
\* attempts of a waiting caller that find the lock held before db.LockTimeout
\* has passed
MaxWait == 2
\* number of events the event log takes from the helper constructors
MaxEvents == 2
\* the last instant of the clock NewIntent reads
MaxClock == 3
\* durations given as ExpirationDuration range over -MaxDuration .. MaxDuration
MaxDuration == 2
\* CloudManager operations invoked around NewIntent
MaxManagerOps == 1
\* calls of CloudStatus.String in a behaviour
MaxStatusCalls == 3
\* integers tried beyond either end of the CloudStatus constants
MaxOutside == 1

\* --------------------------------------------------------- program constants

maxTestLogSize == 16 * 1024 * 1024

StatusOK == 200
StatusBadRequest == 400
StatusNotFound == 404
StatusConflict == 409
StatusInternalServerError == 500

\* the CloudStatus constants, numbered by iota
StatusUnknown == 0
StatusPending == 1
StatusInitializing == 2
StatusFailed == 3
StatusRunning == 4
StatusStopped == 5
StatusTerminated == 6

HostStatusFailed == "failed"
HostProvisionFailed == "provision failed"
HostUninitialized == "initializing"
HostRunning == "running"

EventHostCreated == "HOST_CREATED"
EventHostStatusChanged == "HOST_STATUS_CHANGED"
EventHostDNSNameSet == "HOST_DNS_NAME_SET"
EventHostProvisionFailed == "HOST_PROVISION_FAILED"
EventHostProvisioned == "HOST_PROVISIONED"
EventHostRunningTaskSet == "HOST_RUNNING_TASK_SET"
EventHostRunningTaskCleared == "HOST_RUNNING_TASK_CLEARED"
EventHostTaskPidSet == "HOST_TASK_PID_SET"
EventHostMonitorFlag == "HOST_MONITOR_FLAG"
EventTaskFinished == "HOST_TASK_FINISHED"
EventHostTeardown == "HOST_TEARDOWN"
ResourceTypeHost == "HOST"
ResourceTypeTask == "TASK"

ErrLockTimeout == "Timed out acquiring global lock"

\* instants and durations are counted in days, instants from the Unix epoch:
\* util.ZeroTime is the epoch, the zero value of time.Time is the first day
\* of year 1
ZeroTime == 0
GoZeroTime == 0 - 719162

\* ------------------------------------------------------------- the store

\* task and host records of the store; "t9" and "h9" are ids no record has
StoredTasks == {"t1", "t2"}
StoredHosts == {"h1", "h2"}
TaskIdInputs == StoredTasks \cup {"t9"}
HostIdInputs == StoredHosts \cup {"h9"}

TaskSecretOf(t) == IF t = "t1" THEN "ts1" ELSE "ts2"
HostSecretOf(h) == IF h = "h1" THEN "hs1" ELSE "hs2"

\* the provider name stored with a host
ProviderOf(h) == IF h = "h1" THEN "ec2" ELSE "static"

TaskSecretInputs == {"", "ts1", "ts2"}
HostSecretInputs == {"", "hs1", "hs2"}
\* values of the hostId path variable: no route registered by Handler() has one
PathHostIds == {""}
SetupLogs == {"", "boot error: disk full"}
\* values of the status path variable of the provisioning callback
ReadyStatuses == {HostStatusFailed, "success", "FAILED"}

\* the Accept header as a sequence of its leading pieces
Accepts == {<< >>, <<"application/json">>, <<"text/html", "application/json">>}

BodyLens == {1} \cup ((maxTestLogSize - MaxUnder) .. (maxTestLogSize + MaxOver))

VARIABLES
  tasks,      \* task collection: id -> record
  hosts,      \* host collection: id -> record
  testLogs,   \* test_logs collection (sequence of inserted TestLog records)
  taskLogs,   \* task log collection (sequence of inserted TaskLog records)
  artifacts,  \* artifact entries upserted by AttachFiles
  events,     \* event log collection (sequence of Event records)
  notified,   \* admin notifications attempted (count)
  req,        \* the requests in flight: request id -> record
  now,        \* server clock, one tick per dispatched request
  lock,       \* the global lock: 0 when free, else the caller that holds it
  call,       \* the callers of getGlobalLock: caller -> record
  evCall,     \* the last call of an event helper constructor, with its arguments
  intent,     \* the last call of NewIntent: its arguments and what it returned
  managerOps, \* CloudManager operations invoked so far (count)
  statusLog   \* the calls of CloudStatus.String so far: status and name returned

apiVars == <<tasks, hosts, testLogs, taskLogs, artifacts, events, notified, req, now>>
lockVars == <<lock, call>>
intentVars == <<intent, managerOps>>
auxVars == <<lockVars, evCall, intentVars, statusLog>>
vars == <<tasks, hosts, testLogs, taskLogs, artifacts, events, notified, req, now,
          lock, call, evCall, intent, managerOps, statusLog>>
store == <<tasks, hosts, testLogs, taskLogs, artifacts, events, notified>>

ReqIds == {"r1"}
\* the requests of the specification of concurrent requests
ConcurrentReqIds == {"r1", "r2"}

\* ------------------------------------------------------------ route table

TaskHostRoutes ==
  {"start", "end", "new_end", "log", "heartbeat", "results", "test_logs",
   "files", "system_info", "process_info"}
TaskOnlyRoutes == {"distro", "fetch_task", "version", "project_ref", "fetch_vars"}
Routes == TaskHostRoutes \cup TaskOnlyRoutes \cup {"next_task", "host_ready"}

\* routes wrapped in checkTask
HasTaskGate(route) == route \in TaskHostRoutes \cup TaskOnlyRoutes
\* the checkSecret argument given to checkTask at registration
CheckSecretArg(route) ==
  route \in (TaskHostRoutes \ {"files"}) \cup {"fetch_task", "fetch_vars"}
\* routes wrapped in checkHost
HasHostGate(route) == route \in TaskHostRoutes \cup {"next_task"}
\* handlers that read a JSON body
ReadsJSONBody(route) ==
  route \in {"log", "results", "test_logs", "files", "system_info", "process_info"}

\* ---------------------------------------------------------------- records

NoTask == [Id |-> "", Secret |-> "", Aborted |-> FALSE, Execution |-> 0]
NoHost == [Id |-> "", Secret |-> "", RunningTask |-> ""]

TaskDoc(id) ==
  [Id |-> id, Secret |-> tasks[id].Secret, Aborted |-> tasks[id].Aborted,
   Execution |-> tasks[id].Execution]
HostDoc(id) ==
  [Id |-> id, Secret |-> hosts[id].Secret, RunningTask |-> hosts[id].RunningTask]

\* task.FindOne(task.ById(id)): the record or nil, or a storage error
FindOneTask(id, fails) ==
  IF fails THEN [nil |-> TRUE, err |-> TRUE, doc |-> NoTask]
  ELSE IF id \in DOMAIN tasks THEN [nil |-> FALSE, err |-> FALSE, doc |-> TaskDoc(id)]
  ELSE [nil |-> TRUE, err |-> FALSE, doc |-> NoTask]

\* host.FindOne(host.ById(id)); outcome "ok", "err_nil" (no record and an
\* error) or "err_doc" (a record together with an error)
FindOneHost(id, outcome) ==
  IF outcome = "err_nil" THEN [nil |-> TRUE, err |-> TRUE, doc |-> NoHost]
  ELSE IF outcome = "err_doc" THEN [nil |-> FALSE, err |-> TRUE, doc |-> NoHost]
  ELSE IF id \in DOMAIN hosts THEN [nil |-> FALSE, err |-> FALSE, doc |-> HostDoc(id)]
  ELSE [nil |-> TRUE, err |-> FALSE, doc |-> NoHost]

IdleReq ==
  [pc |-> "idle", route |-> "", taskId |-> "", taskSecret |-> "",
   pathHostId |-> "", hostHeader |-> "", hostSecret |-> "", accept |-> << >>,
   bodyLen |-> 0, bodyJSON |-> TRUE, body |-> "", bodyTask |-> "", bodyExec |-> 0,
   tag |-> "", status |-> "",
   ctxTask |-> NoTask, ctxHost |-> NoHost,
   code |-> 0, kind |-> "", abort |-> FALSE, stoppedBy |-> "", why |-> "",
   handlerRan |-> FALSE, taskFind |-> "", hostFind |-> "",
   touchCalls |-> 0, touchFailed |-> FALSE, opFailed |-> FALSE,
   notifyFailed |-> FALSE, logFailed |-> FALSE, manager |-> "", dns |-> FALSE,
   stamp |-> 0, seq |-> 0,
   store0 |-> << >>]

\* ------------------------------------------------------------------- Init

\* the callers of getGlobalLock, one per request that takes the lock
Callers == 1 .. MaxCallers

\* a request that has not called getGlobalLock yet
IdleCall ==
  [pc |-> "idle", waited |-> 0, seen |-> 0, err |-> FALSE, result |-> FALSE,
   mutated |-> FALSE, outcome |-> "", releaseFailed |-> FALSE]

\* no event helper has been called yet
NoCall ==
  [fn |-> "", hostId |-> "", eventType |-> "", given |-> "", oldStatus |-> "",
   newStatus |-> "", failed |-> FALSE, before |-> << >>]

\* NewIntent has not been called yet
NoIntent == [called |-> FALSE]

Init ==
  /\ \E a \in BOOLEAN :
       tasks = [t \in StoredTasks |->
                  [Secret |-> TaskSecretOf(t), Aborted |-> (t = "t1" /\ a),
                   Execution |-> IF t = "t1" THEN 0 ELSE 1, LastHeartbeat |-> 0,
                   Results |-> 0]]
  /\ \E rt2 \in {"", "t1", "t2"} :
       hosts = [h \in StoredHosts |->
                  [Secret |-> HostSecretOf(h), Provider |-> ProviderOf(h),
                   RunningTask |-> IF h = "h1" THEN "t1" ELSE rt2,
                   LastCommunicationTime |-> 0,
                   Status |-> IF h = "h1" \/ rt2 # "" THEN HostRunning
                              ELSE HostUninitialized,
                   Provisioned |-> (h = "h1" \/ rt2 # "")]]
  /\ testLogs = << >>
  /\ taskLogs = << >>
  /\ artifacts = << >>
  /\ events = << >>
  /\ notified = 0
  /\ req = [r \in ReqIds \cup ConcurrentReqIds |-> IdleReq]
  /\ now = 0
  /\ lock = 0
  /\ call = [c \in Callers |-> IdleCall]
  /\ evCall = NoCall
  /\ intent = NoIntent
  /\ managerOps = 0
  /\ statusLog = << >>

\* the server with one fixed store, for the specifications of its parts
QuietInit ==
  /\ Init
  /\ ~tasks["t1"].Aborted
  /\ hosts["h2"].RunningTask = ""

\* --------------------------------------------------- responses, LoggedError

HasPrefix(s, p) == Len(s) >= Len(p) /\ SubSeq(s, 1, Len(p)) = p

\* LoggedError: JSON when the Accept header starts with application/json
LoggedErrorKind(accept) ==
  IF HasPrefix(accept, <<"application/json">>) THEN "json" ELSE "text"

\* a response written by http.Error or WriteJSON, ending the request
Fail(rq, by, code, kind, why) ==
  [rq EXCEPT !.pc = "done", !.code = code, !.kind = kind, !.stoppedBy = by,
             !.why = why]

LoggedError(rq, by, code, accept, why) ==
  Fail([rq EXCEPT !.accept = accept], by, code, LoggedErrorKind(accept), why)

WriteJSON(rq, code) == [rq EXCEPT !.pc = "done", !.code = code, !.kind = "json"]

\* --------------------------------------------------------------- Dispatch

\* the mux router hands a request to the first wrapper of its route
FirstStage(route) ==
  IF HasTaskGate(route) THEN "checkTask"
  ELSE IF HasHostGate(route) THEN "checkHost"
  ELSE "handler"

\* a request arrives; the headers and the body that only a later step reads
\* are drawn by that step
Dispatch(r) ==
  /\ req[r].pc = "idle"
  /\ now < MaxRequests
  /\ \E route \in Routes :
     \E taskId \in (IF HasTaskGate(route) THEN TaskIdInputs ELSE {""}) :
     \E taskSecret \in (IF HasTaskGate(route) THEN TaskSecretInputs ELSE {""}) :
       req' = [req EXCEPT ![r] =
                 [IdleReq EXCEPT !.pc = FirstStage(route), !.route = route,
                    !.taskId = taskId, !.taskSecret = taskSecret,
                    !.store0 = store]]
  /\ now' = now + 1
  /\ UNCHANGED <<tasks, hosts, testLogs, taskLogs, artifacts, events, notified, auxVars>>

\* the response is written and the request, with its context, is dropped
Respond(r) ==
  /\ req[r].pc = "done"
  /\ req' = [req EXCEPT ![r] = IdleReq]
  /\ UNCHANGED <<tasks, hosts, testLogs, taskLogs, artifacts, events, notified, now, auxVars>>

\* ---------------------------------------------------- request context

\* a value bound under a key of its own, seen by every request
C23_SharedContext(rqs, r, key, val) ==
  [x \in DOMAIN rqs |-> [rqs[x] EXCEPT ![key] = val]]

\* context.Set(r, key, val): the value is bound to the request r
ContextSet(rqs, r, key, val) == [rqs EXCEPT ![r][key] = val]

\* -------------------------------------------------------------- checkTask

\* a comparison that lets an absent secret through
C5_AcceptsEmptySecret(secret, stored) == secret = "" \/ secret = stored

\* the secret comparison of checkTask (secret != t.Secret rejects)
TaskSecretMatches(secret, stored) == secret = stored

\* an unknown task answered as a bad request
C6_NotFoundAsBadRequest == StatusBadRequest

\* the status checkTask gives when no task record is found
TaskNotFoundCode == StatusNotFound

AfterCheckTask(route) == IF HasHostGate(route) THEN "checkHost" ELSE "handler"

CheckTask(r) ==
  /\ req[r].pc = "checkTask"
  /\ \E fails \in BOOLEAN : \E accept \in Accepts :
       LET rq == [req[r] EXCEPT !.taskFind = IF fails THEN "err" ELSE "ok"]
           found == FindOneTask(rq.taskId, fails)
           passes == /\ rq.taskId # "" /\ ~found.err /\ ~found.nil
                     /\ ~(CheckSecretArg(rq.route)
                           /\ ~TaskSecretMatches(rq.taskSecret, found.doc.Secret))
           answered == [req EXCEPT ![r] =
            IF rq.taskId = ""
              THEN LoggedError(rq, "checkTask", StatusBadRequest, accept, "missing task id")
            ELSE IF found.err
              THEN LoggedError(rq, "checkTask", StatusInternalServerError, accept,
                               "task lookup error")
            ELSE IF found.nil
              THEN LoggedError(rq, "checkTask", TaskNotFoundCode, accept, "task not found")
            ELSE IF CheckSecretArg(rq.route)
                    /\ ~TaskSecretMatches(rq.taskSecret, found.doc.Secret)
              THEN Fail([rq EXCEPT !.accept = accept], "checkTask", StatusConflict,
                        "text", "wrong secret")
            ELSE [rq EXCEPT !.pc = AfterCheckTask(rq.route)]]
       IN req' = IF passes THEN ContextSet(answered, r, "ctxTask", found.doc)
                 ELSE answered
  /\ UNCHANGED <<tasks, hosts, testLogs, taskLogs, artifacts, events, notified, now, auxVars>>

\* -------------------------------------------------------------- checkHost

\* the host header preferred to the path variable
C26_HeaderFirst(pathHostId, hostHeader) ==
  IF hostHeader = "" THEN pathHostId ELSE hostHeader

\* the host id checkHost uses: the path variable, else the host header
RequestHostId(pathHostId, hostHeader) ==
  IF pathHostId = "" THEN hostHeader ELSE pathHostId

\* secret != "" && secret != h.Secret
HostSecretRejected(secret, stored) == secret # "" /\ secret # stored

\* the host/task relation left unchecked
C1_NoConsistencyCheck(h, t) == FALSE

\* h.RunningTask != t.Id, checked when a task is attached to the context
HostTaskMismatch(h, t) == t.Id # "" /\ h.RunningTask # t.Id

\* the status checkHost gives when no host record is found
HostNotFoundCode == StatusBadRequest

\* the lookup error of checkHost tested before the missing record
C30_ErrorBeforeNil(found, secret, ctxTask) ==
  IF found.err THEN "host lookup error"
  ELSE IF found.nil THEN "host not found"
  ELSE IF HostSecretRejected(secret, found.doc.Secret) THEN "invalid host secret"
  ELSE IF HostTaskMismatch(found.doc, ctxTask) THEN "host task mismatch"
  ELSE ""

\* the verdict of checkHost on the looked-up host: "" lets the request pass
CheckHostVerdict(found, secret, ctxTask) ==
  IF found.nil THEN "host not found"
  ELSE IF found.err THEN "host lookup error"
  ELSE IF HostSecretRejected(secret, found.doc.Secret) THEN "invalid host secret"
  ELSE IF HostTaskMismatch(found.doc, ctxTask) THEN "host task mismatch"
  ELSE ""

CheckHostCode(verdict) ==
  IF verdict = "host not found" THEN HostNotFoundCode
  ELSE IF verdict = "host lookup error" THEN StatusInternalServerError
  ELSE StatusConflict

\* the access time updated ahead of the host/task check
C8_TouchBeforeConsistency(verdict) == verdict \in {"", "host task mismatch"}

\* h.UpdateLastCommunicated() is called only once every check has passed
TouchesHost(verdict) == verdict = ""

\* the hosts collection after h.UpdateLastCommunicated() at time t
UpdateLastCommunicated(hs, id, fails, t) ==
  IF fails THEN hs ELSE [hs EXCEPT ![id].LastCommunicationTime = t]

\* a failed update of the access time treated as fatal
C9_FailsOnTouchError(failed) == ~failed

\* checkHost goes on to the handler whether or not the update was persisted
ProceedsAfterTouch(failed) == TRUE

\* checkHost for a request whose route gives one of pathIds as its hostId
\* path variable ("" when the route has no such variable)
CheckHostOn(r, pathIds) ==
  /\ req[r].pc = "checkHost"
  /\ \E pathHostId \in pathIds : \E hostHeader \in HostIdInputs \cup {""} :
     \E hostSecret \in HostSecretInputs :
     \E outcome \in {"ok", "err_nil", "err_doc"} :
     \E touchFails \in BOOLEAN : \E accept \in Accepts :
       LET hostId == RequestHostId(pathHostId, hostHeader)
           rq == [req[r] EXCEPT !.pathHostId = pathHostId, !.hostHeader = hostHeader]
           found == FindOneHost(hostId, outcome)
           verdict == CheckHostVerdict(found, hostSecret, rq.ctxTask)
           touched == TouchesHost(verdict)
           rs == [rq EXCEPT !.hostSecret = hostSecret, !.hostFind = outcome,
                            !.touchCalls = IF touched THEN @ + 1 ELSE @,
                            !.touchFailed = touched /\ touchFails]
       IN IF hostId = ""
            THEN \* no host information: skip all host logic, go on to the route
                 /\ hostSecret = "" /\ outcome = "ok" /\ ~touchFails /\ accept = << >>
                 /\ req' = [req EXCEPT ![r] = [rq EXCEPT !.pc = "handler"]]
                 /\ hosts' = hosts
            ELSE /\ touchFails => touched
                 /\ hosts' = IF touched
                               THEN UpdateLastCommunicated(hosts, hostId, touchFails, now)
                               ELSE hosts
                 /\ IF verdict # ""
                      THEN req' = [req EXCEPT ![r] =
                             LoggedError(rs, "checkHost", CheckHostCode(verdict), accept,
                                         verdict)]
                    ELSE IF ~ProceedsAfterTouch(touchFails)
                      THEN req' = [req EXCEPT ![r] =
                             LoggedError(rs, "checkHost", StatusInternalServerError, accept,
                                         "could not update host")]
                    ELSE /\ accept = << >>
                         /\ req' = ContextSet([req EXCEPT ![r] =
                                                [rs EXCEPT !.pc = "handler"]],
                                              r, "ctxHost", found.doc)
  /\ UNCHANGED <<tasks, testLogs, taskLogs, artifacts, events, notified, now, auxVars>>

\* checkHost behind the routes of Handler, none of which has a hostId variable
CheckHost(r) == CheckHostOn(r, PathHostIds)

\* --------------------------------------------------------------- handlers

\* MustHaveTask: the task checkTask attached to the request
MustHaveTask(rq) == rq.ctxTask

Ran(rq) == [rq EXCEPT !.handlerRan = TRUE]

\* the bytes a reader takes from a body of n bytes behind
\* io.LimitedReader{N: limit}, reading to the end of the stream
BytesRead(n, limit) == IF n < limit THEN n ELSE limit

\* lr.N after util.ReadJSONInto has read the body through the limited reader
RemainingN(n, limit) == limit - BytesRead(n, limit)

\* lr.N == 0: every available byte of the limited reader was used
LimitExhausted(n, limit) == RemainingN(n, limit) = 0

\* the task ids and executions a log document in a request body may name
BodyTaskIds == StoredTasks
BodyExecutions == {tasks[t].Execution : t \in StoredTasks}

\* the log persisted under the task and execution its body names
C27_KeepsBodyTask(log, t) == log

\* "enforce proper taskID and Execution": the parsed TestLog is given the id
\* and the execution of the task of the request
EnforceTestLogTask(log, t) ==
  [log EXCEPT !.Task = t.Id, !.TaskExecution = t.Execution]

\* the parsed TaskLog is given the id and the execution of the task of the
\* request
EnforceTaskLogTask(taskLog, t) ==
  [taskLog EXCEPT !.TaskId = t.Id, !.Execution = t.Execution]

\* AttachTestLog: POST /task/{taskId}/test_logs
AttachTestLog(r) ==
  /\ req[r].pc = "handler" /\ req[r].route = "test_logs"
  /\ \E bodyLen \in BodyLens : \E bodyJSON \in BOOLEAN : \E insertFails \in BOOLEAN :
     \E accept \in Accepts :
     \E bodyTask \in BodyTaskIds : \E bodyExec \in BodyExecutions :
       LET t == MustHaveTask(req[r])
           parsed == ~LimitExhausted(bodyLen, maxTestLogSize) /\ bodyJSON
           rq == Ran([req[r] EXCEPT !.bodyLen = bodyLen, !.bodyJSON = bodyJSON,
                        !.bodyTask = IF parsed THEN bodyTask ELSE @,
                        !.bodyExec = IF parsed THEN bodyExec ELSE @])
           log == [Task |-> bodyTask, TaskExecution |-> bodyExec, Size |-> bodyLen]
           \* a body cut off by the limited reader does not parse
           readErr == ~bodyJSON \/ bodyLen > maxTestLogSize
       IN IF ~parsed /\ ~(bodyTask = "t1" /\ bodyExec = tasks["t1"].Execution)
            THEN FALSE  \* a body that does not parse names no task
          ELSE IF LimitExhausted(bodyLen, maxTestLogSize)
            THEN /\ ~insertFails
                 /\ req' = [req EXCEPT ![r] =
                      LoggedError(rq, "handler", StatusBadRequest, accept,
                                  "test log size exceeds limit")]
                 /\ testLogs' = testLogs
          ELSE IF readErr
            THEN /\ ~insertFails
                 /\ req' = [req EXCEPT ![r] =
                      LoggedError(rq, "handler", StatusBadRequest, accept, "bad body")]
                 /\ testLogs' = testLogs
          ELSE IF insertFails
            THEN /\ req' = [req EXCEPT ![r] =
                      LoggedError([rq EXCEPT !.opFailed = TRUE], "handler",
                                  StatusInternalServerError, accept, "insert failed")]
                 /\ testLogs' = testLogs
          ELSE /\ accept = << >>
               /\ testLogs' = Append(testLogs, EnforceTestLogTask(log, t))
               /\ req' = [req EXCEPT ![r] = WriteJSON(rq, StatusOK)]
  /\ UNCHANGED <<tasks, hosts, taskLogs, artifacts, events, notified, now, auxVars>>

\* AttachResults: POST /task/{taskId}/results
AttachResults(r) ==
  /\ req[r].pc = "handler" /\ req[r].route = "results"
  /\ \E bodyJSON \in BOOLEAN : \E setFails \in BOOLEAN : \E accept \in Accepts :
       LET t == MustHaveTask(req[r])
           rq == Ran([req[r] EXCEPT !.bodyJSON = bodyJSON])
       IN IF ~bodyJSON
            THEN /\ ~setFails
                 /\ req' = [req EXCEPT ![r] =
                      LoggedError(rq, "handler", StatusBadRequest, accept, "bad body")]
                 /\ tasks' = tasks
          ELSE IF setFails
            THEN /\ req' = [req EXCEPT ![r] =
                      LoggedError([rq EXCEPT !.opFailed = TRUE], "handler",
                                  StatusInternalServerError, accept, "set results failed")]
                 /\ tasks' = tasks
          ELSE /\ accept = << >>
               /\ tasks' = [tasks EXCEPT ![t.Id].Results = now]
               /\ req' = [req EXCEPT ![r] = WriteJSON(rq, StatusOK)]
  /\ UNCHANGED <<hosts, testLogs, taskLogs, artifacts, events, notified, now, auxVars>>

\* AttachFiles: POST /task/{taskId}/files
AttachFiles(r) ==
  /\ req[r].pc = "handler" /\ req[r].route = "files"
  /\ \E bodyJSON \in BOOLEAN : \E upsertFails \in BOOLEAN :
       LET t == MustHaveTask(req[r])
           rq == Ran([req[r] EXCEPT !.bodyJSON = bodyJSON])
       IN IF ~bodyJSON
            THEN /\ ~upsertFails
                 /\ req' = [req EXCEPT ![r] =
                      Fail(rq, "handler", StatusBadRequest, "json", "bad body")]
                 /\ artifacts' = artifacts
          ELSE IF upsertFails
            THEN /\ req' = [req EXCEPT ![r] =
                      Fail([rq EXCEPT !.opFailed = TRUE], "handler",
                           StatusInternalServerError, "json", "upsert failed")]
                 /\ artifacts' = artifacts
          ELSE /\ artifacts' = Append(artifacts, [TaskId |-> t.Id])
               /\ req' = [req EXCEPT ![r] = WriteJSON(rq, StatusOK)]
  /\ UNCHANGED <<tasks, hosts, testLogs, taskLogs, events, notified, now, auxVars>>

\* AppendTaskLog: POST /task/{taskId}/log
AppendTaskLog(r) ==
  /\ req[r].pc = "handler" /\ req[r].route = "log"
  /\ \E bodyJSON \in BOOLEAN : \E insertFails \in BOOLEAN : \E accept \in Accepts :
     \E bodyTask \in BodyTaskIds : \E bodyExec \in BodyExecutions :
       LET t == MustHaveTask(req[r])
           rq == Ran([req[r] EXCEPT !.bodyJSON = bodyJSON,
                        !.bodyTask = IF bodyJSON THEN bodyTask ELSE @,
                        !.bodyExec = IF bodyJSON THEN bodyExec ELSE @])
           taskLog == [TaskId |-> bodyTask, Execution |-> bodyExec]
       IN IF ~bodyJSON /\ ~(bodyTask = "t1" /\ bodyExec = tasks["t1"].Execution)
            THEN FALSE  \* a body that does not parse names no task
          ELSE IF ~bodyJSON
            THEN /\ ~insertFails /\ accept = << >>
                 /\ req' = [req EXCEPT ![r] =
                      Fail(rq, "handler", StatusBadRequest, "text", "bad body")]
                 /\ taskLogs' = taskLogs
          ELSE IF insertFails
            THEN /\ req' = [req EXCEPT ![r] =
                      LoggedError([rq EXCEPT !.opFailed = TRUE], "handler",
                                  StatusInternalServerError, accept, "insert failed")]
                 /\ taskLogs' = taskLogs
          ELSE /\ accept = << >>
               /\ taskLogs' = Append(taskLogs, EnforceTaskLogTask(taskLog, t))
               /\ req' = [req EXCEPT ![r] = WriteJSON(rq, StatusOK)]
  /\ UNCHANGED <<tasks, hosts, testLogs, artifacts, events, notified, now, auxVars>>

\* the abort signal is never sent
C20_NeverSignalsAbort(t) == FALSE

\* the Abort field Heartbeat gives its response for the bound task t
HeartbeatAbort(t) == t.Aborted

\* a heartbeat timestamp that never goes back
C21_KeepsLatestStamp(ts, id, stamp) ==
  [ts EXCEPT ![id].LastHeartbeat = IF @ > stamp THEN @ ELSE stamp]

\* the update of t.UpdateHeartbeat applied by the store: the timestamp of
\* the task is overwritten
ApplyHeartbeat(ts, id, stamp) == [ts EXCEPT ![id].LastHeartbeat = stamp]

\* a failed heartbeat update reported to the agent
C29_ReportsUpdateError(updateFailed) ==
  IF updateFailed THEN StatusInternalServerError ELSE StatusOK

\* the status Heartbeat responds with: the error of UpdateHeartbeat is only
\* logged
HeartbeatStatus(updateFailed) == StatusOK

\* Heartbeat: POST /task/{taskId}/heartbeat
Heartbeat(r) ==
  /\ req[r].pc = "handler" /\ req[r].route = "heartbeat"
  /\ \E updateFails \in BOOLEAN :
       LET t == MustHaveTask(req[r])
           rq == Ran([req[r] EXCEPT !.abort = HeartbeatAbort(t),
                                      !.opFailed = updateFails])
       IN /\ tasks' = IF updateFails THEN tasks
                      ELSE ApplyHeartbeat(tasks, t.Id, now)
          /\ req' = [req EXCEPT ![r] =
               IF HeartbeatStatus(updateFails) = StatusOK
                 THEN WriteJSON(rq, StatusOK)
                 ELSE Fail(rq, "handler", HeartbeatStatus(updateFails), "text",
                           "heartbeat")]
  /\ UNCHANGED <<hosts, testLogs, taskLogs, artifacts, events, notified, now, auxVars>>

\* the zero value of HostEventData
HostEventData ==
  [ResourceType |-> "", OldStatus |-> "", NewStatus |-> "", Logs |-> "",
   Hostname |-> "", TaskId |-> "", TaskPid |-> "", TaskStatus |-> "",
   MonitorOp |-> "", Successful |-> FALSE, Duration |-> 0]

\* event.LogTaskSystemData / LogTaskProcessData: a task event, best effort
LogTaskEvent(evs, taskId, eventType, fails) ==
  IF fails THEN evs
  ELSE Append(evs, [ResourceId |-> taskId, EventType |-> eventType,
                    Data |-> [HostEventData EXCEPT !.ResourceType = ResourceTypeTask]])

\* TaskSystemInfo and TaskProcessInfo: POST /task/{taskId}/system_info,
\* /process_info
TaskInfo(r) ==
  /\ req[r].pc = "handler" /\ req[r].route \in {"system_info", "process_info"}
  /\ \E bodyJSON \in BOOLEAN : \E logFails \in BOOLEAN : \E accept \in Accepts :
       LET t == MustHaveTask(req[r])
           rq == Ran([req[r] EXCEPT !.bodyJSON = bodyJSON])
           eventType == IF req[r].route = "system_info"
                          THEN "TASK_SYSTEM_INFO" ELSE "TASK_PROCESS_INFO"
       IN IF ~bodyJSON
            THEN /\ ~logFails
                 /\ req' = [req EXCEPT ![r] =
                      LoggedError(rq, "handler", StatusBadRequest, accept, "bad body")]
                 /\ events' = events
          ELSE /\ accept = << >>
               /\ events' = LogTaskEvent(events, t.Id, eventType, logFails)
               /\ req' = [req EXCEPT ![r] =
                    WriteJSON([rq EXCEPT !.opFailed = logFails], StatusOK)]
  /\ UNCHANGED <<tasks, hosts, testLogs, taskLogs, artifacts, notified, now, auxVars>>

\* FetchTask: GET /task/{taskId}/
FetchTask(r) ==
  /\ req[r].pc = "handler" /\ req[r].route = "fetch_task"
  /\ req' = [req EXCEPT ![r] = WriteJSON(Ran(req[r]), StatusOK)]
  /\ UNCHANGED <<tasks, hosts, testLogs, taskLogs, artifacts, events, notified, now, auxVars>>

\* GetVersion, GetProjectRef, FetchProjectVars: look a document up for the
\* task and send it; outcome "ok", "none" (no document) or "err"
Lookup(r) ==
  /\ req[r].pc = "handler" /\ req[r].route \in {"version", "project_ref", "fetch_vars"}
  /\ \E outcome \in {"ok", "none", "err"} : \E accept \in Accepts :
       LET rq == Ran(req[r])
       IN IF outcome = "err"
            THEN req' = [req EXCEPT ![r] =
                   LoggedError([rq EXCEPT !.opFailed = TRUE], "handler",
                               StatusInternalServerError, accept, "lookup failed")]
            ELSE /\ accept = << >>
                 /\ req' = [req EXCEPT ![r] =
                      IF outcome = "none" /\ rq.route # "fetch_vars"
                        THEN Fail(rq, "handler", StatusNotFound, "text", "not found")
                        ELSE WriteJSON(rq, StatusOK)]
  /\ UNCHANGED <<tasks, hosts, testLogs, taskLogs, artifacts, events, notified, now, auxVars>>

\* StartTask, EndTask, newEndTask, NextTask and GetDistro: the handler runs
UnlistedHandler(r) ==
  /\ req[r].pc = "handler"
  /\ req[r].route \in {"start", "end", "new_end", "next_task", "distro"}
  /\ req' = [req EXCEPT ![r] = [Ran(req[r]) EXCEPT !.pc = "done"]]
  /\ UNCHANGED <<tasks, hosts, testLogs, taskLogs, artifacts, events, notified, now, auxVars>>

\* ------------------------------------------------------- host event log

\* IsValid of HostEventData
IsValid(data) == data.ResourceType = ResourceTypeHost

\* the event appended with the resource type its caller filled in
C25_KeepsCallerResourceType(evs, hostId, eventType, data, fails) ==
  IF fails THEN evs
  ELSE Append(evs, [ResourceId |-> hostId, EventType |-> eventType, Data |-> data])

\* LogHostEvent: the event is tagged with the host resource type and
\* appended; a failure of the logger is logged and nothing is appended
LogHostEvent(evs, hostId, eventType, data, fails) ==
  IF fails THEN evs
  ELSE Append(evs, [ResourceId |-> hostId, EventType |-> eventType,
                    Data |-> [data EXCEPT !.ResourceType = ResourceTypeHost]])

\* setup logs recorded as an empty text
C11_DropsSetupLogs(evs, hostId, setupLogs, fails) ==
  LogHostEvent(evs, hostId, EventHostProvisionFailed, HostEventData, fails)

LogProvisionFailed(evs, hostId, setupLogs, fails) ==
  LogHostEvent(evs, hostId, EventHostProvisionFailed,
               [HostEventData EXCEPT !.Logs = setupLogs], fails)

\* the event written although the status did not change
C17_LogsUnchangedStatus(evs, hostId, oldStatus, newStatus, fails) ==
  LogHostEvent(evs, hostId, EventHostStatusChanged,
               [HostEventData EXCEPT !.OldStatus = oldStatus,
                                     !.NewStatus = newStatus], fails)

LogHostStatusChanged(evs, hostId, oldStatus, newStatus, fails) ==
  IF oldStatus = newStatus THEN evs
  ELSE LogHostEvent(evs, hostId, EventHostStatusChanged,
                    [HostEventData EXCEPT !.OldStatus = oldStatus,
                                          !.NewStatus = newStatus], fails)

LogHostCreated(evs, hostId, fails) ==
  LogHostEvent(evs, hostId, EventHostCreated, HostEventData, fails)

LogHostDNSNameSet(evs, hostId, dnsName, fails) ==
  LogHostEvent(evs, hostId, EventHostDNSNameSet,
               [HostEventData EXCEPT !.Hostname = dnsName], fails)

LogHostProvisioned(evs, hostId, fails) ==
  LogHostEvent(evs, hostId, EventHostProvisioned, HostEventData, fails)

LogHostRunningTaskSet(evs, hostId, taskId, fails) ==
  LogHostEvent(evs, hostId, EventHostRunningTaskSet,
               [HostEventData EXCEPT !.TaskId = taskId], fails)

LogHostRunningTaskCleared(evs, hostId, taskId, fails) ==
  LogHostEvent(evs, hostId, EventHostRunningTaskCleared,
               [HostEventData EXCEPT !.TaskId = taskId], fails)

LogHostTaskPidSet(evs, hostId, taskPid, fails) ==
  LogHostEvent(evs, hostId, EventHostTaskPidSet,
               [HostEventData EXCEPT !.TaskPid = taskPid], fails)

LogHostTeardown(evs, hostId, teardownLogs, success, duration, fails) ==
  LogHostEvent(evs, hostId, EventHostTeardown,
               [HostEventData EXCEPT !.Logs = teardownLogs, !.Successful = success,
                                     !.Duration = duration], fails)

LogMonitorOperation(evs, hostId, op, fails) ==
  LogHostEvent(evs, hostId, EventHostMonitorFlag,
               [HostEventData EXCEPT !.MonitorOp = op], fails)

\* -------------------------------------------------------------- hostReady

\* getHostFromRequest: the host named by the tag path variable, or an error
GetHostFromRequestFails(tag, found) == tag = "" \/ found.nil \/ found.err

\* the status hostReady gives when getHostFromRequest fails
HostReadyLookupCode == StatusBadRequest

\* h.SetUnprovisioned()
SetUnprovisioned(hs, id) ==
  [hs EXCEPT ![id].Status = HostProvisionFailed, ![id].Provisioned = FALSE]

\* h.MarkAsProvisioned()
MarkAsProvisioned(hs, id) ==
  [hs EXCEPT ![id].Status = HostRunning, ![id].Provisioned = TRUE]

\* a failed notification of the admins ends the failure path
C12_StopsOnNotifyError(notifyFails, step) ==
  IF notifyFails THEN "notify" ELSE step

\* where the failure path of hostReady returns early: "read" when the body
\* cannot be read, "set" when SetUnprovisioned fails, "" otherwise (errors of
\* NotifyAdmins and of the event logger are only logged)
FailurePathStop(notifyFails, step) == step

\* the host marked provisioned although its DNS name was not resolved
C13_MarksBeforeDNS(step) == step \in {"", "dns"}

\* the success path of hostReady reaches MarkAsProvisioned only when
\* GetCloudManager and GetDNSName returned no error
ReachesMark(step) == step \notin {"manager", "dns"}

\* the provision failure recorded only once the host was set unprovisioned
C28_EventAfterSet(stop) == stop = ""

\* the failure path of hostReady records the ProvisionFailed event when it got
\* past the read of the setup log, before SetUnprovisioned is called
RecordsEvent(stop) == stop \notin {"notify", "read"}

\* hostReady: POST /host/{tag}/ready/{status}
\* step names the first call that fails: "" (none), "read" (the body),
\* "set" (SetUnprovisioned), "manager" (GetCloudManager), "dns" (GetDNSName),
\* "mark" (MarkAsProvisioned)
HostReady(r) ==
  /\ req[r].pc = "handler" /\ req[r].route = "host_ready"
  /\ \E tag \in HostIdInputs : \E status \in ReadyStatuses :
     \E body \in SetupLogs : \E outcome \in {"ok", "err_nil", "err_doc"} :
     \E notifyFails \in BOOLEAN : \E logFails \in BOOLEAN :
     \E step \in {"", "read", "set", "manager", "dns", "mark"} :
     \E accept \in Accepts :
       LET found == FindOneHost(tag, outcome)
           rq == Ran([req[r] EXCEPT !.tag = tag, !.hostFind = outcome])
           rs == [rq EXCEPT !.status = status, !.body = body, !.opFailed = (step # ""),
                            !.why = step, !.notifyFailed = notifyFails]
           stop == FailurePathStop(notifyFails, step)
       IN IF GetHostFromRequestFails(tag, found)
            THEN /\ status = "success" /\ body = "" /\ ~notifyFails /\ ~logFails
                 /\ step = "" /\ accept = << >>
                 /\ req' = [req EXCEPT ![r] =
                      Fail(rq, "handler", HostReadyLookupCode, "text", "no host")]
                 /\ UNCHANGED <<hosts, events, notified>>
          ELSE IF status = HostStatusFailed
            THEN /\ step \in {"", "read", "set"}
                 /\ notified' = notified + 1
                 /\ events' = IF RecordsEvent(stop)
                                THEN LogProvisionFailed(events, tag, body, logFails)
                                ELSE events
                 /\ IF stop \in {"notify", "read"}
                      THEN /\ body = "" /\ ~logFails
                           /\ req' = [req EXCEPT ![r] =
                                LoggedError(rs, "handler", StatusInternalServerError,
                                            accept, stop)]
                           /\ hosts' = hosts
                      ELSE /\ IF stop = "set"
                                THEN /\ req' = [req EXCEPT ![r] =
                                          LoggedError([rs EXCEPT !.logFailed = logFails],
                                                      "handler", StatusInternalServerError,
                                                      accept, "set")]
                                     /\ hosts' = hosts
                                ELSE /\ accept = << >>
                                     /\ hosts' = SetUnprovisioned(hosts, tag)
                                     /\ req' = [req EXCEPT ![r] =
                                          WriteJSON([rs EXCEPT !.logFailed = logFails],
                                                    StatusOK)]
          ELSE /\ body = "" /\ ~logFails
               /\ step \in {"", "manager", "dns", "mark"}
               /\ notifyFails => step = "manager"
               /\ events' = events
               /\ notified' = IF step = "manager" THEN notified + 1 ELSE notified
               /\ hosts' = IF ReachesMark(step) /\ step # "mark"
                             THEN MarkAsProvisioned(hosts, tag) ELSE hosts
               /\ LET rt == [rs EXCEPT
                               !.manager = IF step = "manager" THEN ""
                                           ELSE hosts[tag].Provider,
                               !.dns = step \notin {"manager", "dns"}]
                  IN IF step # ""
                       THEN req' = [req EXCEPT ![r] =
                              LoggedError(rt, "handler", StatusInternalServerError,
                                          accept, step)]
                       ELSE /\ accept = << >>
                            /\ req' = [req EXCEPT ![r] =
                                 [rt EXCEPT !.pc = "done", !.code = StatusOK,
                                            !.kind = "none"]]
  /\ UNCHANGED <<tasks, testLogs, taskLogs, artifacts, now, auxVars>>

\* ---------------------------------------------------------- global lock

\* getGlobalLock: what it returns for the pair (lockAcquired, err) that
\* db.WaitTillAcquireGlobalLock gave
C14_TrueOnTimeout(lockAcquired, err) == ~err

C15_TrueOnError(lockAcquired, err) == err \/ lockAcquired

GetGlobalLockReturns(lockAcquired, err) ==
  IF err THEN FALSE
  ELSE IF ~lockAcquired THEN FALSE
  ELSE TRUE

\* releaseGlobalLock: whether it returns normally when db.ReleaseGlobalLock
\* gave the error err
C16_FailsOnReleaseError(err) == ~err

ReleaseGlobalLockReturns(err) == TRUE

\* the caller after getGlobalLock has returned: it goes on to its guarded
\* mutation on true, and fails with ErrLockTimeout on false
AfterGetGlobalLock(cl, lockAcquired, err, seen) ==
  LET result == GetGlobalLockReturns(lockAcquired, err)
  IN [cl EXCEPT !.pc = IF result THEN "locked" ELSE "refused",
                !.result = result, !.err = err, !.seen = seen,
                !.outcome = IF result THEN "" ELSE ErrLockTimeout]

\* a request calls getGlobalLock and enters db.WaitTillAcquireGlobalLock
GetGlobalLock(c) ==
  /\ call[c].pc = "idle"
  /\ call' = [call EXCEPT ![c].pc = "waiting"]
  /\ UNCHANGED <<lock, apiVars, evCall, intentVars, statusLog>>

\* an attempt that finds the lock free takes it
Acquire(c) ==
  /\ call[c].pc = "waiting" /\ lock = 0
  /\ lock' = c
  /\ call' = [call EXCEPT ![c] = AfterGetGlobalLock(call[c], TRUE, FALSE, lock)]
  /\ UNCHANGED <<apiVars, evCall, intentVars, statusLog>>

\* an attempt that finds the lock held, before the timeout has passed
KeepWaiting(c) ==
  /\ call[c].pc = "waiting" /\ lock # 0 /\ call[c].waited < MaxWait
  /\ call' = [call EXCEPT ![c].waited = @ + 1, ![c].seen = lock]
  /\ UNCHANGED <<lock, apiVars, evCall, intentVars, statusLog>>

\* an attempt that finds the lock held when the timeout has passed
TimeOut(c) ==
  /\ call[c].pc = "waiting" /\ lock # 0 /\ call[c].waited = MaxWait
  /\ call' = [call EXCEPT ![c] = AfterGetGlobalLock(call[c], FALSE, FALSE, lock)]
  /\ UNCHANGED <<lock, apiVars, evCall, intentVars, statusLog>>

\* the acquisition attempt returns an error
AcquireError(c) ==
  /\ call[c].pc = "waiting"
  /\ call' = [call EXCEPT ![c] = AfterGetGlobalLock(call[c], FALSE, TRUE, lock)]
  /\ UNCHANGED <<lock, apiVars, evCall, intentVars, statusLog>>

\* one step of db.WaitTillAcquireGlobalLock for caller c
WaitStep(c) == Acquire(c) \/ KeepWaiting(c) \/ TimeOut(c) \/ AcquireError(c)

\* the caller performs the mutation the lock guards
GuardedMutation(c) ==
  /\ call[c].pc = "locked"
  /\ call' = [call EXCEPT ![c].pc = "mutated", ![c].mutated = TRUE]
  /\ UNCHANGED <<lock, apiVars, evCall, intentVars, statusLog>>

\* releaseGlobalLock, and the response of the request; a failing
\* db.ReleaseGlobalLock leaves the lock as it was
ReleaseGlobalLock(c) ==
  /\ call[c].pc = "mutated"
  /\ \E err \in BOOLEAN :
       /\ lock' = IF err THEN lock ELSE 0
       /\ call' = [call EXCEPT ![c] =
            IF ReleaseGlobalLockReturns(err)
              THEN [@ EXCEPT !.pc = "released", !.releaseFailed = err,
                             !.outcome = "ok"]
              ELSE [@ EXCEPT !.pc = "failed", !.releaseFailed = err,
                             !.outcome = "release failed"]]
  /\ UNCHANGED <<apiVars, evCall, intentVars, statusLog>>

NextLock ==
  \E c \in Callers :
    \/ GetGlobalLock(c)
    \/ Acquire(c)
    \/ KeepWaiting(c)
    \/ TimeOut(c)
    \/ AcquireError(c)
    \/ GuardedMutation(c)
    \/ ReleaseGlobalLock(c)

\* every caller inside db.WaitTillAcquireGlobalLock keeps attempting
SpecLock ==
  /\ QuietInit
  /\ [][NextLock]_vars
  /\ \A c \in Callers : WF_vars(WaitStep(c))

\* --------------------------------------- the event helper constructors

\* the statuses a reconciliation hands to LogHostStatusChanged
HostStatuses == {HostUninitialized, HostRunning, HostProvisionFailed}

\* a caller logs a status change of a host; the logger may fail
CallLogHostStatusChanged ==
  /\ Len(events) < MaxEvents
  /\ \E hostId \in StoredHosts : \E oldStatus \in HostStatuses :
     \E newStatus \in HostStatuses : \E fails \in BOOLEAN :
       /\ fails => oldStatus # newStatus
       /\ events' = LogHostStatusChanged(events, hostId, oldStatus, newStatus, fails)
       /\ evCall' = [NoCall EXCEPT !.fn = "LogHostStatusChanged", !.hostId = hostId,
                     !.eventType = EventHostStatusChanged,
                     !.oldStatus = oldStatus, !.newStatus = newStatus,
                     !.failed = fails, !.before = events]
  /\ UNCHANGED <<tasks, hosts, testLogs, taskLogs, artifacts, notified, req, now,
                 lockVars, intentVars, statusLog>>

\* the helper constructors that always log, with the argument of each call
HostHelperCalls ==
  {[fn |-> "LogHostCreated", eventType |-> EventHostCreated, arg |-> ""],
   [fn |-> "LogHostDNSNameSet", eventType |-> EventHostDNSNameSet,
    arg |-> "h.example.com"],
   [fn |-> "LogHostProvisioned", eventType |-> EventHostProvisioned, arg |-> ""],
   [fn |-> "LogHostRunningTaskSet", eventType |-> EventHostRunningTaskSet,
    arg |-> "t1"],
   [fn |-> "LogHostRunningTaskCleared", eventType |-> EventHostRunningTaskCleared,
    arg |-> "t1"],
   [fn |-> "LogHostTaskPidSet", eventType |-> EventHostTaskPidSet, arg |-> "42"],
   [fn |-> "LogProvisionFailed", eventType |-> EventHostProvisionFailed,
    arg |-> "setup failed"],
   [fn |-> "LogHostTeardown", eventType |-> EventHostTeardown, arg |-> "torn down"],
   [fn |-> "LogMonitorOperation", eventType |-> EventHostMonitorFlag,
    arg |-> "reachability"]}

\* the event log after the helper call c for host hostId
HelperLog(evs, hostId, c, success, fails) ==
  CASE c.fn = "LogHostCreated" -> LogHostCreated(evs, hostId, fails)
    [] c.fn = "LogHostDNSNameSet" -> LogHostDNSNameSet(evs, hostId, c.arg, fails)
    [] c.fn = "LogHostProvisioned" -> LogHostProvisioned(evs, hostId, fails)
    [] c.fn = "LogHostRunningTaskSet" -> LogHostRunningTaskSet(evs, hostId, c.arg, fails)
    [] c.fn = "LogHostRunningTaskCleared" ->
         LogHostRunningTaskCleared(evs, hostId, c.arg, fails)
    [] c.fn = "LogHostTaskPidSet" -> LogHostTaskPidSet(evs, hostId, c.arg, fails)
    [] c.fn = "LogProvisionFailed" -> LogProvisionFailed(evs, hostId, c.arg, fails)
    [] c.fn = "LogHostTeardown" ->
         LogHostTeardown(evs, hostId, c.arg, success, MaxDuration, fails)
    [] c.fn = "LogMonitorOperation" -> LogMonitorOperation(evs, hostId, c.arg, fails)

\* a caller logs through one of the helper constructors; the logger may fail
CallHostHelper ==
  /\ Len(events) < MaxEvents
  /\ \E hostId \in StoredHosts : \E c \in HostHelperCalls :
     \E success \in BOOLEAN : \E fails \in BOOLEAN :
       /\ success => c.fn = "LogHostTeardown"
       /\ events' = HelperLog(events, hostId, c, success, fails)
       /\ evCall' = [NoCall EXCEPT !.fn = c.fn, !.hostId = hostId,
                     !.eventType = c.eventType, !.failed = fails,
                     !.before = events]
  /\ UNCHANGED <<tasks, hosts, testLogs, taskLogs, artifacts, notified, req, now,
                 lockVars, intentVars, statusLog>>

\* the resource types a caller of LogHostEvent may have filled in
GivenResourceTypes == {"", ResourceTypeTask, ResourceTypeHost}

\* a caller logs through LogHostEvent itself, with event data of its own
CallLogHostEvent ==
  /\ Len(events) < MaxEvents
  /\ \E hostId \in StoredHosts : \E given \in GivenResourceTypes :
     \E fails \in BOOLEAN :
       /\ events' = LogHostEvent(events, hostId, EventTaskFinished,
                       [HostEventData EXCEPT !.ResourceType = given], fails)
       /\ evCall' = [NoCall EXCEPT !.fn = "LogHostEvent", !.hostId = hostId,
                     !.eventType = EventTaskFinished, !.given = given,
                     !.failed = fails, !.before = events]
  /\ UNCHANGED <<tasks, hosts, testLogs, taskLogs, artifacts, notified, req, now,
                 lockVars, intentVars, statusLog>>

NextEvents == CallLogHostStatusChanged \/ CallHostHelper \/ CallLogHostEvent

SpecEvents == QuietInit /\ [][NextEvents]_vars

\* ---------------------------------------------------------- NewIntent

InstanceNames == {"evg-1", "evg-2"}
ProviderNames == {"ec2", "static"}
UserNames == {"", "user1"}
UserDatas == {"", "#!/bin/sh"}

\* the distro handed to NewIntent
IntentDistro == [Id |-> "d1", User |-> "root"]

\* a *time.Duration: nil, or a pointer to v
NilDuration == [nil |-> TRUE, v |-> 0]
DurationPointers ==
  {NilDuration} \cup {[nil |-> FALSE, v |-> d] : d \in (0 - MaxDuration) .. MaxDuration}

\* a *host.ProvisionOptions: nil, or a pointer to the options of a task
ProvisionOptionPointers == {"nil", "load-cli for t1"}

HostOptionsInputs ==
  [ProvisionOptions : ProvisionOptionPointers, ExpirationDuration : DurationPointers,
   UserName : UserNames, UserData : UserDatas, UserHost : BOOLEAN]

\* the expiration counted from the epoch instead of the creation instant
C18_ExpiresFromZeroTime(creationTime, duration) ==
  IF duration.nil THEN GoZeroTime ELSE ZeroTime + duration.v

\* the ExpirationTime NewIntent gives the host: left at the zero value of
\* time.Time unless a duration is given
IntentExpirationTime(creationTime, duration) ==
  IF duration.nil THEN GoZeroTime ELSE creationTime + duration.v

\* the intent host left without its tag and marked as running
C19_UntaggedRunningHost(d, instanceName, provider, options, creationTime) ==
  [Id |-> instanceName, User |-> d.User, Distro |-> d, Tag |-> "",
   CreationTime |-> creationTime, Status |-> HostRunning,
   TerminationTime |-> ZeroTime, TaskDispatchTime |-> ZeroTime,
   Provider |-> provider, StartedBy |-> options.UserName,
   UserHost |-> options.UserHost,
   ExpirationTime |-> IntentExpirationTime(creationTime, options.ExpirationDuration),
   ProvisionOptions |-> options.ProvisionOptions, UserData |-> options.UserData]

\* NewIntent: the host record it returns, creationTime being its one reading
\* of time.Now()
NewIntent(d, instanceName, provider, options, creationTime) ==
  [Id |-> instanceName, User |-> d.User, Distro |-> d, Tag |-> instanceName,
   CreationTime |-> creationTime, Status |-> HostUninitialized,
   TerminationTime |-> ZeroTime, TaskDispatchTime |-> ZeroTime,
   Provider |-> provider, StartedBy |-> options.UserName,
   UserHost |-> options.UserHost,
   ExpirationTime |-> IntentExpirationTime(creationTime, options.ExpirationDuration),
   ProvisionOptions |-> options.ProvisionOptions, UserData |-> options.UserData]

\* time passes
Tick ==
  /\ now < MaxClock
  /\ now' = now + 1
  /\ UNCHANGED <<tasks, hosts, testLogs, taskLogs, artifacts, events, notified, req,
                 lockVars, evCall, intentVars, statusLog>>

\* a caller builds an intent host, once in a behaviour; the options are
\* passed by value and NewIntent assigns to none of their fields
CallNewIntent ==
  /\ ~intent.called
  /\ \E instanceName \in InstanceNames : \E provider \in ProviderNames :
     \E options \in HostOptionsInputs :
       intent' = [called |-> TRUE, instanceName |-> instanceName,
                  provider |-> provider, options |-> options,
                  optionsAfter |-> options, at |-> now,
                  host |-> NewIntent(IntentDistro, instanceName, provider, options, now),
                  opsBefore |-> managerOps, opsAfter |-> managerOps]
  /\ UNCHANGED <<apiVars, lockVars, evCall, managerOps, statusLog>>

\* an operation of a CloudManager is invoked (SpawnInstance and the like)
CloudManagerOp ==
  /\ managerOps < MaxManagerOps
  /\ managerOps' = managerOps + 1
  /\ UNCHANGED <<apiVars, lockVars, evCall, intent, statusLog>>

NextIntent == Tick \/ CallNewIntent \/ CloudManagerOp

SpecIntent == QuietInit /\ [][NextIntent]_vars

\* -------------------------------------------------------- CloudStatus

\* every unrecognized status named as a terminated instance
C24_DefaultTerminated(stat) ==
  CASE stat = StatusPending -> "pending"
    [] stat = StatusFailed -> "failed"
    [] stat = StatusInitializing -> "initializing"
    [] stat = StatusRunning -> "running"
    [] stat = StatusStopped -> "stopped"
    [] OTHER -> "terminated"

\* func (stat CloudStatus) String() string
String(stat) ==
  CASE stat = StatusPending -> "pending"
    [] stat = StatusFailed -> "failed"
    [] stat = StatusInitializing -> "initializing"
    [] stat = StatusRunning -> "running"
    [] stat = StatusStopped -> "stopped"
    [] stat = StatusTerminated -> "terminated"
    [] OTHER -> "unknown"

\* CloudStatus is an int: the declared constants and integers around them
CloudStatusInputs ==
  (StatusUnknown - MaxOutside) .. (StatusTerminated + MaxOutside)

\* a caller prints a status
CallString ==
  /\ Len(statusLog) < MaxStatusCalls
  /\ \E stat \in CloudStatusInputs :
       statusLog' = Append(statusLog, [stat |-> stat, name |-> String(stat)])
  /\ UNCHANGED <<apiVars, lockVars, evCall, intentVars>>

NextCloudStatus == CallString

SpecCloudStatus == QuietInit /\ [][NextCloudStatus]_vars

\* ------------------------------------------- heartbeats and task aborts

\* an external actor (a user cancelling the task) marks a task as aborted
AbortTask(t) ==
  /\ ~tasks[t].Aborted
  /\ tasks' = [tasks EXCEPT ![t].Aborted = TRUE]
  /\ UNCHANGED <<hosts, testLogs, taskLogs, artifacts, events, notified, req, now,
                 auxVars>>

\* a heartbeat request arrives
DispatchHeartbeat(r) == Dispatch(r) /\ req'[r].route = "heartbeat"

NextHeartbeat ==
  \/ \E r \in ReqIds :
       \/ DispatchHeartbeat(r)
       \/ CheckTask(r)
       \/ CheckHost(r)
       \/ Heartbeat(r)
       \/ Respond(r)
  \/ \E t \in StoredTasks : AbortTask(t)

\* the agents' heartbeats, with tasks aborted from outside at any moment
SpecHeartbeat == Init /\ [][NextHeartbeat]_vars

\* ------------------------------------------- concurrent heartbeats

\* both tasks run on a host of their own
ConcurrentInit == Init /\ hosts["h2"].RunningTask = "t2"

\* a heartbeat request arrives while another may be in flight
ArriveHeartbeat(r) ==
  /\ req[r].pc = "idle"
  /\ \E taskId \in TaskIdInputs : \E taskSecret \in TaskSecretInputs :
       req' = [req EXCEPT ![r] =
                 [IdleReq EXCEPT !.pc = FirstStage("heartbeat"), !.route = "heartbeat",
                    !.taskId = taskId, !.taskSecret = taskSecret, !.store0 = store]]
  /\ now' = now + 1
  /\ UNCHANGED <<tasks, hosts, testLogs, taskLogs, artifacts, events, notified, auxVars>>

\* Heartbeat up to the call of t.UpdateHeartbeat: the reply is built from the
\* bound task and the update takes the time of the clock
HeartbeatBegin(r) ==
  /\ req[r].pc = "handler" /\ req[r].route = "heartbeat"
  /\ LET t == MustHaveTask(req[r])
     IN req' = [req EXCEPT ![r] =
                  [Ran(req[r]) EXCEPT !.abort = HeartbeatAbort(t), !.stamp = now,
                                      !.pc = "update"]]
  /\ UNCHANGED <<tasks, hosts, testLogs, taskLogs, artifacts, events, notified, now,
                 auxVars>>

\* the updates of the heartbeat timestamp the store has applied so far
AppliedUpdates == Cardinality({x \in DOMAIN req : req[x].seq > 0})

\* the store applies the update, or fails to, and Heartbeat writes its reply
HeartbeatEnd(r) ==
  /\ req[r].pc = "update"
  /\ \E updateFails \in BOOLEAN :
       LET t == MustHaveTask(req[r])
           rq == [req[r] EXCEPT !.opFailed = updateFails,
                                !.seq = IF updateFails THEN @ ELSE AppliedUpdates + 1]
       IN /\ tasks' = IF updateFails THEN tasks
                      ELSE ApplyHeartbeat(tasks, t.Id, req[r].stamp)
          /\ req' = [req EXCEPT ![r] =
               IF HeartbeatStatus(updateFails) = StatusOK
                 THEN WriteJSON(rq, StatusOK)
                 ELSE Fail(rq, "handler", HeartbeatStatus(updateFails), "text",
                           "heartbeat")]
  /\ UNCHANGED <<hosts, testLogs, taskLogs, artifacts, events, notified, now, auxVars>>

NextConcurrent ==
  \E r \in ConcurrentReqIds :
    \/ ArriveHeartbeat(r) \/ CheckTask(r) \/ CheckHost(r)
    \/ HeartbeatBegin(r) \/ HeartbeatEnd(r)

\* two heartbeat requests served by goroutines of their own
SpecConcurrent == ConcurrentInit /\ [][NextConcurrent]_vars

\* ------------------------------------- checkHost behind a {hostId} route

\* checkHost wrapping a route whose path has a {hostId} variable
CheckHostRouted(r) == CheckHostOn(r, HostIdInputs)

NextHostPath ==
  \E r \in ReqIds :
    \/ DispatchHeartbeat(r) \/ CheckTask(r) \/ CheckHost(r) \/ CheckHostRouted(r)
    \/ Heartbeat(r) \/ Respond(r)

SpecHostPath == Init /\ [][NextHostPath]_vars

Next ==
  \E r \in ReqIds :
    \/ Dispatch(r)
    \/ CheckTask(r)
    \/ CheckHost(r)
    \/ AttachTestLog(r)
    \/ AttachResults(r)
    \/ AttachFiles(r)
    \/ AppendTaskLog(r)
    \/ Heartbeat(r)
    \/ TaskInfo(r)
    \/ FetchTask(r)
    \/ Lookup(r)
    \/ UnlistedHandler(r)
    \/ HostReady(r)
    \/ Respond(r)

Spec == Init /\ [][Next]_vars

\* ------------------------------------------------------------- properties

Done(r) == req[r].pc = "done"
\* checkHost has looked the request's host up without a storage error
HostLookedUp(r) == req[r].hostFind = "ok"
\* checkTask has looked the request's task up without a storage error
TaskLookedUp(r) == req[r].taskFind = "ok"
\* the host id the request gives, once checkHost has read it
HostIdOf(r) == RequestHostId(req[r].pathHostId, req[r].hostHeader)
\* the request has been handed to its handler
ReachedHandler(r) == req[r].pc = "handler" \/ req[r].handlerRan
\* the store as it was when the request arrived
TasksAtArrival(r) == req[r].store0[1]
HostsAtArrival(r) == req[r].store0[2]
TestLogsAtArrival(r) == req[r].store0[3]
StoreUntouched(r) == store = req[r].store0

\* the task-mutating routes of claim C1
C1Routes ==
  {"start", "end", "log", "heartbeat", "results", "test_logs", "system_info",
   "process_info"}

\* the request carries the stored secret of the task it names
CarriesTaskSecret(r) ==
  /\ req[r].taskId \in DOMAIN tasks
  /\ req[r].taskSecret = tasks[req[r].taskId].Secret

\* C1 as stated: a task-mutating request on T with T's secret that names a
\* host H running T reaches its handler, whatever host secret it carries;
\* naming a host H' not running T it is answered 409 and the handler never
\* runs. (Stated for requests whose lookups meet no storage error.)
C1_AsStated ==
  \A r \in ReqIds :
    (req[r].route \in C1Routes /\ CarriesTaskSecret(r) /\ HostLookedUp(r)
       /\ HostIdOf(r) \in DOMAIN hosts)
    => /\ hosts[HostIdOf(r)].RunningTask = req[r].taskId
            => (ReachedHandler(r) /\ req[r].stoppedBy # "checkHost")
       /\ hosts[HostIdOf(r)].RunningTask # req[r].taskId
            => (Done(r) /\ req[r].code = StatusConflict
                /\ req[r].stoppedBy = "checkHost" /\ ~req[r].handlerRan)

\* C1 (amended): a task-mutating request on T with T's secret that names a
\* host H running T, and carries no host secret or H's stored secret, passes
\* checkTask and checkHost and reaches its handler; the same request naming a
\* host H' with H'.RunningTask != T.Id is answered 409 and its handler never
\* runs. (For requests whose lookups meet no storage error.)
C1_HostRunningTaskGate ==
  \A r \in ReqIds :
    (req[r].route \in C1Routes /\ CarriesTaskSecret(r) /\ HostLookedUp(r)
       /\ HostIdOf(r) \in DOMAIN hosts)
    => /\ (/\ hosts[HostIdOf(r)].RunningTask = req[r].taskId
           /\ req[r].hostSecret \in {"", hosts[HostIdOf(r)].Secret})
            => (/\ ReachedHandler(r)
                /\ req[r].stoppedBy \notin {"checkTask", "checkHost"}
                /\ req[r].ctxTask.Id = req[r].taskId
                /\ req[r].ctxHost.Id = HostIdOf(r))
       /\ hosts[HostIdOf(r)].RunningTask # req[r].taskId
            => (Done(r) /\ req[r].code = StatusConflict
                /\ req[r].stoppedBy = "checkHost" /\ ~req[r].handlerRan)

\* a heartbeat for t1 from h1, which runs t1, has run its handler
C1_Witness ==
  \E r \in ReqIds :
    /\ req[r].route = "heartbeat" /\ req[r].handlerRan
    /\ req[r].taskId = "t1" /\ CarriesTaskSecret(r)
    /\ HostIdOf(r) = "h1" /\ req[r].hostSecret = "hs1"
    /\ hosts["h1"].RunningTask = "t1"

\* C2: on every route wrapped as checkTask(checkHost(handler)), whenever the
\* handler runs a host record was resolved for the request and that host's
\* RunningTask equals the id of the task bound by checkTask.
C2_HandlerOnlyAfterHostCheck ==
  \A r \in ReqIds :
    (req[r].route \in TaskHostRoutes /\ req[r].handlerRan)
    => /\ req[r].ctxHost.Id # ""
       /\ req[r].ctxHost.RunningTask = req[r].ctxTask.Id

\* the handler's own change of the store (the access time written by
\* checkHost apart); for the handlers whose body is not modelled, its run
HandlerMutated(r) ==
  \/ tasks # TasksAtArrival(r)
  \/ testLogs # TestLogsAtArrival(r)
  \/ taskLogs # req[r].store0[4]
  \/ artifacts # req[r].store0[5]
  \/ events # req[r].store0[6]
  \/ (req[r].route \in {"start", "end", "new_end"} /\ req[r].handlerRan)

\* C3: on every task-mutating agent route (start, end, new_end, log,
\* heartbeat, results, test_logs, files, system_info, process_info) the
\* handler's mutation is performed only if the task-secret header equals the
\* stored secret of the task.
C3_MutationOnlyWithTaskSecret ==
  \A r \in ReqIds :
    (req[r].route \in TaskHostRoutes /\ req[r].pc # "idle" /\ HandlerMutated(r))
    => CarriesTaskSecret(r)

\* C4: for a host H whose stored secret is non-empty, a request naming H
\* with an empty host-secret header is rejected by checkHost and the wrapped
\* handler does not run.
C4_EmptyHostSecretRejected ==
  \A r \in ReqIds :
    (HostLookedUp(r) /\ HostIdOf(r) \in DOMAIN hosts
       /\ hosts[HostIdOf(r)].Secret # "" /\ req[r].hostSecret = "")
    => (Done(r) /\ req[r].stoppedBy = "checkHost" /\ ~req[r].handlerRan)

\* C5: with checkSecret = true, a supplied task secret that differs from the
\* stored one (an empty one included) fails the request with 409, binds no
\* task and invokes no next handler (checkHost and its access-time update
\* included); equal secrets let the request proceed with the task bound.
C5_TaskSecretMismatchConflict ==
  \A r \in ReqIds :
    (CheckSecretArg(req[r].route) /\ TaskLookedUp(r) /\ req[r].taskId \in DOMAIN tasks)
    => /\ ~CarriesTaskSecret(r)
            => (/\ Done(r) /\ req[r].code = StatusConflict
                /\ req[r].stoppedBy = "checkTask"
                /\ req[r].ctxTask = NoTask /\ req[r].ctxHost = NoHost
                /\ req[r].hostFind = "" /\ req[r].touchCalls = 0
                /\ ~req[r].handlerRan /\ StoreUntouched(r))
       /\ CarriesTaskSecret(r)
            => (/\ req[r].stoppedBy # "checkTask"
                /\ req[r].ctxTask.Id = req[r].taskId
                /\ req[r].pc \in {"checkHost", "handler", "done"})

\* a request with an empty task secret was refused by checkTask
C5_Witness ==
  \E r \in ReqIds :
    /\ CheckSecretArg(req[r].route) /\ req[r].taskId = "t1" /\ req[r].taskSecret = ""
    /\ Done(r) /\ req[r].code = StatusConflict /\ req[r].why = "wrong secret"

\* C6: a request whose task id names no stored task fails in checkTask with
\* 404, binds nothing and invokes no next handler, whatever secret it carries.
C6_UnknownTaskNotFound ==
  \A r \in ReqIds :
    (HasTaskGate(req[r].route) /\ TaskLookedUp(r) /\ req[r].taskId \notin DOMAIN tasks)
    => (/\ Done(r) /\ req[r].code = StatusNotFound /\ req[r].stoppedBy = "checkTask"
        /\ req[r].ctxTask = NoTask /\ req[r].ctxHost = NoHost
        /\ req[r].hostFind = "" /\ ~req[r].handlerRan /\ StoreUntouched(r))

\* a request for the unknown task t9, carrying a secret some task has
C6_Witness ==
  \E r \in ReqIds :
    /\ req[r].taskId = "t9" /\ req[r].taskSecret = "ts1" /\ TaskLookedUp(r)
    /\ Done(r) /\ req[r].why = "task not found"

\* C7: a request whose host id names no stored host fails with 404 and the
\* next handler is not invoked; hostReady does the same for an unknown tag.
C7_UnknownHostNotFound ==
  \A r \in ReqIds :
    /\ (HasHostGate(req[r].route) /\ HostLookedUp(r) /\ HostIdOf(r) # ""
          /\ HostIdOf(r) \notin DOMAIN hosts)
       => (Done(r) /\ req[r].code = StatusNotFound /\ ~req[r].handlerRan)
    /\ (req[r].route = "host_ready" /\ HostLookedUp(r)
          /\ req[r].tag \notin DOMAIN hosts)
       => (Done(r) /\ req[r].code = StatusNotFound)

\* C8: whenever checkHost rejects a request, nothing of the store has
\* changed during the request (the access time of the host, the heartbeat,
\* results, logs and events of the task), no host is bound to the request
\* and no handler has run.
C8_RejectionLeavesStore ==
  \A r \in ReqIds :
    req[r].stoppedBy = "checkHost"
    => (/\ StoreUntouched(r) /\ req[r].ctxHost = NoHost
        /\ req[r].touchCalls = 0 /\ ~req[r].handlerRan)

\* checkHost rejected a request whose host does not run the bound task
C8_Witness ==
  \E r \in ReqIds :
    /\ req[r].stoppedBy = "checkHost" /\ req[r].why = "host task mismatch"
    /\ req[r].ctxTask.Id # "" /\ HostIdOf(r) \in DOMAIN hosts

\* checkHost has found the host of the request, the host secret is one it
\* accepts (absent, or the stored one) and the host runs the bound task, if any
HostResolved(r) ==
  /\ HasHostGate(req[r].route) /\ HostLookedUp(r) /\ HostIdOf(r) \in DOMAIN hosts
  /\ req[r].hostSecret \in {"", hosts[HostIdOf(r)].Secret}
  /\ req[r].ctxTask.Id # "" => hosts[HostIdOf(r)].RunningTask = req[r].ctxTask.Id

\* C9: on every successful host resolution checkHost updates the host's
\* access time exactly once, before the handler runs; when persisting the
\* update fails the request does not fail: the host is bound to the request
\* and the next handler is invoked.
C9_TouchOnceBestEffort ==
  \A r \in ReqIds :
    HostResolved(r)
    => /\ req[r].touchCalls = 1
       /\ req[r].stoppedBy # "checkHost"
       /\ req[r].ctxHost.Id = HostIdOf(r)
       /\ ReachedHandler(r)
       /\ hosts[HostIdOf(r)].LastCommunicationTime =
            IF req[r].touchFailed
              THEN HostsAtArrival(r)[HostIdOf(r)].LastCommunicationTime
              ELSE now

\* the update of the access time failed and the handler ran all the same
C9_Witness ==
  \E r \in ReqIds :
    /\ HostResolved(r) /\ req[r].touchFailed /\ req[r].handlerRan
    /\ req[r].code = StatusOK

\* C10: AttachTestLog accepts a body of exactly maxTestLogSize bytes and
\* persists its TestLog; a body of more bytes is rejected with 400 and no
\* TestLog is persisted. (Bodies of well-formed JSON, the insert succeeding.)
C10_TestLogSizeBoundary ==
  \A r \in ReqIds :
    (req[r].route = "test_logs" /\ req[r].handlerRan /\ req[r].bodyJSON
       /\ ~req[r].opFailed)
    => /\ req[r].bodyLen = maxTestLogSize
            => (req[r].code = StatusOK
                /\ Len(testLogs) = Len(TestLogsAtArrival(r)) + 1)
       /\ req[r].bodyLen > maxTestLogSize
            => (req[r].code = StatusBadRequest /\ testLogs = TestLogsAtArrival(r))

\* ------------------------------------------------ hostReady, properties

EventsAtArrival(r) == req[r].store0[6]
NotifiedAtArrival(r) == req[r].store0[7]

\* hostReady has run for a stored host that getHostFromRequest found
HostReadyRan(r) ==
  /\ req[r].route = "host_ready" /\ req[r].handlerRan
  /\ req[r].hostFind = "ok" /\ req[r].tag \in DOMAIN hosts

\* the ProvisionFailed event hostReady records for the request
ProvisionFailedEvent(r) ==
  [ResourceId |-> req[r].tag, EventType |-> EventHostProvisionFailed,
   Data |-> [HostEventData EXCEPT !.ResourceType = ResourceTypeHost,
                                  !.Logs = req[r].body]]

\* what the failure path leaves behind when it runs to its end
FailureAcknowledged(r) ==
  /\ hosts[req[r].tag].Status = HostProvisionFailed
  /\ ~hosts[req[r].tag].Provisioned
  /\ \A h \in DOMAIN hosts \ {req[r].tag} : hosts[h] = HostsAtArrival(r)[h]
  /\ req[r].code = StatusOK /\ req[r].kind = "json"

\* C11 as stated: every existing host that reports status = failed with body
\* B ends unprovisioned, with exactly one ProvisionFailed event carrying B,
\* a notification attempted and a 200 acknowledgment
C11_AsStated ==
  \A r \in ReqIds :
    (HostReadyRan(r) /\ req[r].status = HostStatusFailed)
    => /\ FailureAcknowledged(r)
       /\ events = Append(EventsAtArrival(r), ProvisionFailedEvent(r))
       /\ notified = NotifiedAtArrival(r) + 1

\* C11: an existing host H reports status = failed with body B, the body is
\* read, the event logger persists and SetUnprovisioned succeeds: afterwards
\* H is unprovisioned, the event log has grown by exactly one ProvisionFailed
\* event for H whose Logs is B, a notification of the admins was attempted
\* and the caller has 200 with the JSON acknowledgment
C11_ProvisionFailureRecorded ==
  \A r \in ReqIds :
    (HostReadyRan(r) /\ req[r].status = HostStatusFailed
       /\ ~req[r].opFailed /\ ~req[r].logFailed)
    => /\ FailureAcknowledged(r)
       /\ events = Append(EventsAtArrival(r), ProvisionFailedEvent(r))
       /\ notified = NotifiedAtArrival(r) + 1

\* a host that was initializing reported failed with a non-empty setup log
C11_Witness ==
  \E r \in ReqIds :
    /\ HostReadyRan(r) /\ req[r].status = HostStatusFailed
    /\ ~req[r].opFailed /\ ~req[r].logFailed
    /\ req[r].body # "" /\ Len(events) = 1 /\ events[1].Data.Logs = req[r].body
    /\ HostsAtArrival(r)[req[r].tag].Status = HostUninitialized
    /\ hosts[req[r].tag].Status = HostProvisionFailed

\* C12: in the failure path of hostReady, when the notification of the admins
\* fails or the ProvisionFailed event is not persisted (the body being read
\* and SetUnprovisioned succeeding), the host still becomes unprovisioned and
\* the caller still has 200 with the JSON acknowledgment; an event that was
\* not persisted is simply absent
C12_BestEffortSideEffects ==
  \A r \in ReqIds :
    (HostReadyRan(r) /\ req[r].status = HostStatusFailed /\ ~req[r].opFailed
       /\ (req[r].notifyFailed \/ req[r].logFailed))
    => /\ FailureAcknowledged(r)
       /\ req[r].stoppedBy = ""
       /\ req[r].logFailed => events = EventsAtArrival(r)

\* both the notification and the event logger failed, the host went from
\* initializing to unprovisioned and the caller has 200
C12_Witness ==
  \E r \in ReqIds :
    /\ HostReadyRan(r) /\ req[r].status = HostStatusFailed /\ ~req[r].opFailed
    /\ req[r].notifyFailed /\ req[r].logFailed
    /\ HostsAtArrival(r)[req[r].tag].Status = HostUninitialized
    /\ hosts[req[r].tag].Status = HostProvisionFailed
    /\ events = << >> /\ req[r].code = StatusOK

\* C13: on a callback with a status other than failed, the host is marked
\* provisioned only after GetCloudManager(host.Provider) and GetDNSName have
\* succeeded; when either fails the caller has 500 and the stored hosts are
\* exactly as they were at arrival
C13_ProvisionedOnlyAfterDNS ==
  \A r \in ReqIds :
    (HostReadyRan(r) /\ req[r].status # HostStatusFailed)
    => /\ ~req[r].opFailed
            => /\ req[r].manager = HostsAtArrival(r)[req[r].tag].Provider
               /\ req[r].dns
               /\ hosts = MarkAsProvisioned(HostsAtArrival(r), req[r].tag)
               /\ req[r].code = StatusOK
       /\ hosts # HostsAtArrival(r) => (req[r].dns /\ ~req[r].opFailed)
       /\ (req[r].opFailed /\ ~req[r].dns)
            => /\ req[r].code = StatusInternalServerError
               /\ hosts = HostsAtArrival(r)
               /\ events = EventsAtArrival(r)

\* GetDNSName failed for a host that was initializing: 500, host unchanged
C13_Witness ==
  \E r \in ReqIds :
    /\ HostReadyRan(r) /\ req[r].status # HostStatusFailed
    /\ req[r].opFailed /\ req[r].manager # "" /\ ~req[r].dns
    /\ req[r].code = StatusInternalServerError
    /\ hosts[req[r].tag].Status = HostUninitialized
    /\ ~hosts[req[r].tag].Provisioned

\* a successful callback moved a host from initializing to provisioned
C13_SuccessReached ==
  \E r \in ReqIds :
    /\ HostReadyRan(r) /\ req[r].status = "success" /\ ~req[r].opFailed
    /\ HostsAtArrival(r)[req[r].tag].Status = HostUninitialized
    /\ hosts[req[r].tag].Provisioned

\* ----------------------------------------------- global lock, properties

\* getGlobalLock has returned true to c and c's releaseGlobalLock has not
\* returned yet
Holds(c) == call[c].pc \in {"locked", "mutated"}

Waiting(c) == call[c].pc = "waiting"

\* getGlobalLock has returned false to c
Refused(c) == call[c].pc = "refused"

\* C14 as stated: at most one caller holds the lock at any instant, and a
\* waiting caller that does not acquire the lock has timed out: its last
\* attempt, after MaxWait waits, still found the lock held
C14_AsStated ==
  /\ Cardinality({c \in Callers : Holds(c)}) <= 1
  /\ \A c \in Callers :
       Refused(c) => (call[c].seen # 0 /\ call[c].waited = MaxWait)

\* C14: of any number of concurrent callers of getGlobalLock at most one
\* holds the lock at any instant, and the lock is that caller's; a caller is
\* refused for a timeout only when its last attempt, after MaxWait waits,
\* still found the lock held; and whenever a caller waits while the lock is
\* free, that caller (or another waiting one) acquires it, unless its
\* acquisition attempt returns an error
C14_GlobalLockMutualExclusion ==
  /\ [](/\ Cardinality({c \in Callers : Holds(c)}) <= 1
        /\ \A c \in Callers : Holds(c) => lock = c
        /\ \A c \in Callers :
             (Refused(c) /\ ~call[c].err)
             => (call[c].seen # 0 /\ call[c].waited = MaxWait))
  /\ \A c \in Callers :
       (Waiting(c) /\ lock = 0)
       ~> (Holds(c) \/ lock # 0 \/ (Refused(c) /\ call[c].err))

\* a caller that found the lock held and waited holds it now, the earlier
\* holder having released it
C14_Witness ==
  \E c, h \in Callers :
    /\ c # h /\ Holds(c) /\ call[c].waited > 0
    /\ call[h].pc = "released" /\ ~call[h].releaseFailed

\* C15: getGlobalLock has returned true to a caller only if that caller
\* acquired the lock (it is the lock's holder until it releases); a caller
\* whose acquisition timed out or returned an error got false, is not the
\* holder, has not performed the guarded mutation and has failed with
\* ErrLockTimeout
C15_FalseOnTimeoutOrError ==
  \A c \in Callers :
    /\ (call[c].result /\ Holds(c)) => (lock = c /\ ~call[c].err)
    /\ call[c].mutated => call[c].result
    /\ Refused(c)
         => /\ ~call[c].result /\ lock # c /\ ~call[c].mutated
            /\ call[c].outcome = ErrLockTimeout
    /\ call[c].err => Refused(c)

\* one caller timed out while another held the lock, a third one got an
\* error: neither has mutated
C15_Witness ==
  \E c, d \in Callers :
    /\ Refused(c) /\ ~call[c].err /\ call[c].waited = MaxWait
    /\ Refused(d) /\ call[d].err
    /\ lock \notin {0, c, d}

\* C16: releaseGlobalLock returns normally whether or not
\* db.ReleaseGlobalLock succeeded: the caller's request ends with its
\* mutation done and its response unaffected, never failed by the release
C16_ReleaseNeverFails ==
  \A c \in Callers :
    /\ call[c].pc # "failed"
    /\ call[c].pc = "released"
         => (call[c].mutated /\ call[c].outcome = "ok")
    /\ (call[c].pc = "released" /\ call[c].releaseFailed) => lock = c

\* a caller whose release failed has ended normally; the lock is still held
C16_Witness ==
  \E c \in Callers :
    /\ call[c].pc = "released" /\ call[c].releaseFailed
    /\ call[c].mutated /\ call[c].outcome = "ok" /\ lock = c

\* -------------------------------------- LogHostStatusChanged, properties

\* the event LogHostStatusChanged writes for the call recorded in evCall
StatusChangedEvent ==
  [ResourceId |-> evCall.hostId, EventType |-> EventHostStatusChanged,
   Data |-> [HostEventData EXCEPT !.ResourceType = ResourceTypeHost,
                                  !.OldStatus = evCall.oldStatus,
                                  !.NewStatus = evCall.newStatus]]

\* C17 as stated: no event when old == new, exactly one HOST_STATUS_CHANGED
\* event with both statuses whenever old != new
C17_AsStated ==
  evCall.fn = "LogHostStatusChanged"
  => /\ evCall.oldStatus = evCall.newStatus => events = evCall.before
     /\ evCall.oldStatus # evCall.newStatus
          => events = Append(evCall.before, StatusChangedEvent)

\* C17: LogHostStatusChanged(hostId, old, new) leaves the event log as it was
\* when old == new; when old != new and the event logger does not fail it
\* appends exactly one HOST_STATUS_CHANGED event for hostId with OldStatus ==
\* old and NewStatus == new; when the logger fails nothing is appended
C17_StatusChangedOnlyOnChange ==
  evCall.fn = "LogHostStatusChanged"
  => /\ evCall.oldStatus = evCall.newStatus => events = evCall.before
     /\ (evCall.oldStatus # evCall.newStatus /\ ~evCall.failed)
          => events = Append(evCall.before, StatusChangedEvent)
     /\ evCall.failed => events = evCall.before

\* after a logged change to running, a second call with the status unchanged
\* left the log at its one event
C17_Witness ==
  /\ evCall.fn = "LogHostStatusChanged"
  /\ evCall.oldStatus = HostRunning /\ evCall.newStatus = HostRunning
  /\ Len(events) = 1 /\ events = evCall.before
  /\ events[1].ResourceId = evCall.hostId
  /\ events[1].Data.OldStatus = HostUninitialized
  /\ events[1].Data.NewStatus = HostRunning

\* ------------------------------------------------- NewIntent, properties

\* C18: NewIntent called with ExpirationDuration pointing to d returns a host
\* whose ExpirationTime is its CreationTime plus d, CreationTime being the
\* instant of the call; with a nil ExpirationDuration the ExpirationTime is
\* the zero value of time.Time
C18_ExpirationFromCreation ==
  intent.called
  => /\ intent.host.CreationTime = intent.at
     /\ ~intent.options.ExpirationDuration.nil
          => intent.host.ExpirationTime
               = intent.host.CreationTime + intent.options.ExpirationDuration.v
     /\ intent.options.ExpirationDuration.nil
          => intent.host.ExpirationTime = GoZeroTime

\* an intent created after the epoch with a positive duration expires later
C18_Witness ==
  /\ intent.called /\ ~intent.options.ExpirationDuration.nil
  /\ intent.options.ExpirationDuration.v > 0 /\ intent.host.CreationTime > ZeroTime
  /\ intent.host.ExpirationTime > intent.host.CreationTime

\* C19: the host NewIntent returns is Uninitialized, has Id == Tag ==
\* instanceName, the provider given, StartedBy and UserHost from the options
\* and the instant of the call as CreationTime; during the call no
\* CloudManager operation is invoked and the HostOptions are as they were
C19_IntentHostFromArguments ==
  intent.called
  => /\ intent.host.Status = HostUninitialized
     /\ intent.host.Id = intent.instanceName
     /\ intent.host.Tag = intent.instanceName
     /\ intent.host.Provider = intent.provider
     /\ intent.host.StartedBy = intent.options.UserName
     /\ intent.host.UserHost = intent.options.UserHost
     /\ intent.host.CreationTime = intent.at
     /\ intent.opsAfter = intent.opsBefore
     /\ intent.optionsAfter = intent.options

\* an intent for a user's host, built after a CloudManager operation had
\* been invoked elsewhere
C19_Witness ==
  /\ intent.called /\ intent.host.Status = HostUninitialized
  /\ intent.host.Tag = "evg-2" /\ intent.host.Provider = "static"
  /\ intent.host.StartedBy = "user1" /\ intent.host.UserHost
  /\ intent.at > 0 /\ intent.opsBefore > 0

\* ------------------------------------------------- Heartbeat, properties

\* the Heartbeat handler has run for the request
HeartbeatRan(r) == req[r].route = "heartbeat" /\ req[r].handlerRan

\* the task checkTask bound to the request
BoundTask(r) == req[r].ctxTask.Id

\* what every heartbeat answers: 200 with the Aborted flag checkTask read;
\* true when the task was aborted before the request arrived, false when the
\* task has never been aborted
AbortSignalled(r) ==
  /\ req[r].code = StatusOK /\ req[r].kind = "json"
  /\ req[r].abort = req[r].ctxTask.Aborted
  /\ TasksAtArrival(r)[BoundTask(r)].Aborted => req[r].abort
  /\ ~tasks[BoundTask(r)].Aborted => ~req[r].abort

\* C20 as stated: every heartbeat that passes the gate updates the heartbeat
\* timestamp of its task and answers 200 with the task's Aborted flag
C20_AsStated ==
  \A r \in ReqIds :
    HeartbeatRan(r)
    => /\ tasks[BoundTask(r)].LastHeartbeat = now
       /\ AbortSignalled(r)

\* C20: every heartbeat that passes the gate answers 200 with Abort equal to
\* the Aborted flag checkTask read for its task: true for every request that
\* arrived after the task was marked aborted, false for a task never
\* aborted; the heartbeat timestamp of the task is set to the instant of the
\* request unless UpdateHeartbeat fails, and then it is left as it was
C20_HeartbeatAbortSignal ==
  \A r \in ReqIds :
    HeartbeatRan(r)
    => /\ AbortSignalled(r)
       /\ ~req[r].opFailed => tasks[BoundTask(r)].LastHeartbeat = now
       /\ req[r].opFailed
            => tasks[BoundTask(r)].LastHeartbeat
                 = TasksAtArrival(r)[BoundTask(r)].LastHeartbeat

\* a task that was not aborted at the start was aborted from outside, and a
\* heartbeat arriving afterwards was answered with Abort = true and stamped
C20_Witness ==
  \E r \in ReqIds :
    /\ HeartbeatRan(r) /\ BoundTask(r) = "t2"
    /\ TasksAtArrival(r)["t2"].Aborted /\ req[r].abort
    /\ ~req[r].opFailed /\ tasks["t2"].LastHeartbeat = now /\ now > 0
    /\ req[r].code = StatusOK

\* a task aborted between checkTask and the handler: this heartbeat still
\* answers Abort = false
C20_StaleFlagReached ==
  \E r \in ReqIds :
    /\ HeartbeatRan(r) /\ ~req[r].abort /\ tasks[BoundTask(r)].Aborted

\* ------------------------------------------- gate rejections, properties

\* the request was refused by checkTask or checkHost for an unknown task or
\* host, a secret that does not match, or a host not running the task
GateRejected(r) ==
  /\ Done(r) /\ req[r].stoppedBy \in {"checkTask", "checkHost"}
  /\ req[r].why \in {"task not found", "host not found", "wrong secret",
                     "invalid host secret", "host task mismatch"}

\* C22: every authentication failure (unknown task or host, task-secret or
\* host-secret mismatch) and every host/task mismatch is answered with a JSON
\* error body when the Accept header starts with application/json and with a
\* plaintext body otherwise
C22_GateErrorsHonourAccept ==
  \A r \in ReqIds :
    GateRejected(r) => req[r].kind = LoggedErrorKind(req[r].accept)

\* a known task, a wrong task secret and Accept: application/json: the 409 of
\* checkTask is plaintext
C22_PlaintextConflictReached ==
  \E r \in ReqIds :
    /\ GateRejected(r) /\ req[r].why = "wrong secret"
    /\ req[r].code = StatusConflict
    /\ req[r].accept = <<"application/json">> /\ req[r].kind = "text"

\* ----------------------------------------- hostReady failure order, properties

C28_ReadFailureReached ==
  \E r \in ReqIds :
    /\ HostReadyRan(r) /\ req[r].status = HostStatusFailed
    /\ req[r].why = "read" /\ events = << >> /\ notified = 1
    /\ req[r].code = StatusInternalServerError

\* ------------------------------------- Heartbeat update failure, properties

\* C29: when UpdateHeartbeat fails, Heartbeat still answers 200 with the
\* Abort value of the bound task, and the stored tasks, the heartbeat
\* timestamp included, are as they were when the request arrived
C29_HeartbeatUpdateFailureIgnored ==
  \A r \in ReqIds :
    (HeartbeatRan(r) /\ req[r].opFailed)
    => /\ Done(r) /\ req[r].code = HeartbeatStatus(FALSE) /\ req[r].kind = "json"
       /\ req[r].stoppedBy = ""
       /\ req[r].abort = MustHaveTask(req[r]).Aborted
       /\ tasks = TasksAtArrival(r)

\* a heartbeat for an aborted task whose update failed: 200, Abort = true,
\* the timestamp still the one the task started with
C29_Witness ==
  \E r \in ReqIds :
    /\ HeartbeatRan(r) /\ req[r].opFailed /\ BoundTask(r) = "t1"
    /\ req[r].abort /\ req[r].code = StatusOK
    /\ tasks["t1"].LastHeartbeat = ZeroTime /\ now > ZeroTime

\* ------------------------------------ lookup errors of the gates, properties

\* C30: a storage error of the task lookup in checkTask is answered 500,
\* whether or not a task of that id exists; a storage error of the host
\* lookup that returns no host is answered as host-not-found, 400, by
\* checkHost and by getHostFromRequest (through hostReady), never 500; in each
\* case nothing past the failing step runs: no handler after a gate, no change
\* of the store in hostReady
C30_LookupErrorOrder ==
  \A r \in ReqIds :
    /\ (HasTaskGate(req[r].route) /\ req[r].taskId # "" /\ req[r].taskFind = "err")
         => /\ Done(r) /\ req[r].code = StatusInternalServerError
            /\ req[r].stoppedBy = "checkTask" /\ req[r].ctxTask = NoTask
            /\ req[r].hostFind = "" /\ ~req[r].handlerRan
    /\ (HasHostGate(req[r].route) /\ HostIdOf(r) # "" /\ req[r].hostFind = "err_nil")
         => /\ Done(r) /\ req[r].code = StatusBadRequest
            /\ req[r].stoppedBy = "checkHost" /\ req[r].ctxHost = NoHost
            /\ ~req[r].handlerRan /\ StoreUntouched(r)
    /\ (req[r].route = "host_ready" /\ req[r].handlerRan /\ req[r].tag # ""
          /\ req[r].hostFind = "err_nil")
         => /\ Done(r) /\ req[r].code = StatusBadRequest
            /\ StoreUntouched(r)

\* the lookup of the stored host h1 failed and returned no record: checkHost
\* answered 400 for a request that had passed checkTask
C30_Witness ==
  \E r \in ReqIds :
    /\ HasHostGate(req[r].route) /\ HostIdOf(r) = "h1"
    /\ req[r].hostFind = "err_nil" /\ req[r].ctxTask.Id = "t1"
    /\ req[r].code = StatusBadRequest /\ req[r].stoppedBy = "checkHost"

\* the lookup of the stored task t1 failed: 500 from checkTask
C30_TaskLookupErrorReached ==
  \E r \in ReqIds :
    /\ req[r].taskId = "t1" /\ req[r].taskFind = "err"
    /\ req[r].code = StatusInternalServerError /\ req[r].stoppedBy = "checkTask"

\* ------------------------------------------- log attribution, properties

\* AttachTestLog has stored the log of the request
TestLogStored(r) ==
  /\ req[r].route = "test_logs" /\ req[r].handlerRan /\ req[r].code = StatusOK

\* AppendTaskLog has stored the log of the request
TaskLogStored(r) ==
  /\ req[r].route = "log" /\ req[r].handlerRan /\ req[r].code = StatusOK

\* C27: every TestLog persisted by AttachTestLog and every TaskLog persisted
\* by AppendTaskLog carries the id and the execution of the task checkTask
\* bound to the request, whatever task id and execution the body names; no
\* other log is written
C27_LogsCarryBoundTask ==
  \A r \in ReqIds :
    /\ TestLogStored(r)
         => /\ testLogs = Append(TestLogsAtArrival(r),
                            [Task |-> req[r].ctxTask.Id,
                             TaskExecution |-> req[r].ctxTask.Execution,
                             Size |-> req[r].bodyLen])
            /\ req[r].ctxTask.Id = req[r].taskId
    /\ TaskLogStored(r)
         => /\ taskLogs = Append(req[r].store0[4],
                            [TaskId |-> req[r].ctxTask.Id,
                             Execution |-> req[r].ctxTask.Execution])
            /\ req[r].ctxTask.Id = req[r].taskId
    /\ \A i \in DOMAIN testLogs :
         /\ testLogs[i].Task \in DOMAIN tasks
         /\ testLogs[i].TaskExecution = tasks[testLogs[i].Task].Execution
    /\ \A i \in DOMAIN taskLogs :
         /\ taskLogs[i].TaskId \in DOMAIN tasks
         /\ taskLogs[i].Execution = tasks[taskLogs[i].TaskId].Execution

\* a test log whose body names task t2 and execution 1, sent for task t1 at
\* execution 0, is stored under t1
C27_Witness ==
  \E r \in ReqIds :
    /\ TestLogStored(r) /\ req[r].ctxTask.Id = "t1"
    /\ req[r].bodyTask = "t2" /\ req[r].bodyExec # req[r].ctxTask.Execution
    /\ Len(testLogs) = 1 /\ testLogs[1].Task = "t1"
    /\ testLogs[1].TaskExecution = tasks["t1"].Execution

\* a task log whose body names t1 sent for t2 is stored under t2
C27_TaskLogReached ==
  \E r \in ReqIds :
    /\ TaskLogStored(r) /\ req[r].ctxTask.Id = "t2" /\ req[r].bodyTask = "t1"
    /\ Len(taskLogs) = 1 /\ taskLogs[1].TaskId = "t2"

\* ------------------------------------------- host event records, properties

\* C25: every record appended by LogHostEvent, called directly or through a
\* helper constructor, has the host id and the event type the caller gave and
\* the resource type HOST whatever the caller filled in, so every event of
\* the log is valid after any sequence of logging operations; a call appends
\* at most one record
C25_HostEventsValid ==
  /\ \A i \in DOMAIN events : IsValid(events[i].Data)
  /\ evCall.fn # ""
       => \/ events = evCall.before
          \/ /\ Len(events) = Len(evCall.before) + 1
             /\ SubSeq(events, 1, Len(evCall.before)) = evCall.before
             /\ ~evCall.failed
             /\ events[Len(events)].ResourceId = evCall.hostId
             /\ events[Len(events)].EventType = evCall.eventType
             /\ events[Len(events)].Data.ResourceType = ResourceTypeHost

\* LogHostEvent was called for h2 with event data tagged TASK after a helper
\* had logged for h1: both records are in the log and both are valid
C25_Witness ==
  /\ evCall.fn = "LogHostEvent" /\ evCall.given = ResourceTypeTask
  /\ evCall.hostId = "h2" /\ Len(events) = 2
  /\ events[1].ResourceId = "h1" /\ events[1].EventType = EventHostCreated
  /\ events[2].ResourceId = "h2" /\ events[2].EventType = EventTaskFinished
  /\ IsValid(events[2].Data)

\* --------------------------------------------------- CloudStatus, properties

\* the seven declared values of CloudStatus
DeclaredStatuses ==
  {StatusUnknown, StatusPending, StatusInitializing, StatusFailed, StatusRunning,
   StatusStopped, StatusTerminated}

\* C24: CloudStatus declares exactly seven values, Unknown being the zero
\* value; String gives the six values other than Unknown six distinct names,
\* none of them "unknown", and gives every other value, Unknown and the
\* integers outside the declared ones, the name "unknown", never "failed" or
\* "terminated"
C24_StatusNames ==
  /\ Cardinality(DeclaredStatuses) = 7 /\ StatusUnknown = 0
  /\ \A i \in DOMAIN statusLog :
       LET e == statusLog[i]
       IN /\ e.stat \in DeclaredStatuses \ {StatusUnknown} => e.name # "unknown"
          /\ e.stat \notin DeclaredStatuses \ {StatusUnknown} => e.name = "unknown"
          /\ e.name = "failed" <=> e.stat = StatusFailed
          /\ e.name = "terminated" <=> e.stat = StatusTerminated
          /\ \A j \in DOMAIN statusLog :
               e.name = statusLog[j].name
                 => \/ e.stat = statusLog[j].stat
                    \/ e.name = "unknown"

\* an integer above the declared values, Unknown and Failed were printed:
\* "unknown", "unknown" and "failed"
C24_Witness ==
  /\ Len(statusLog) = 3
  /\ statusLog[1].stat > StatusTerminated /\ statusLog[1].name = "unknown"
  /\ statusLog[2].stat = StatusUnknown /\ statusLog[2].name = "unknown"
  /\ statusLog[3].stat = StatusFailed /\ statusLog[3].name = "failed"

\* --------------------------------------- host identification, properties

\* the host id the claim gives a request: the path variable when the route
\* supplies one, the host header otherwise
EffectiveHostId(r) ==
  IF req[r].pathHostId # "" THEN req[r].pathHostId ELSE req[r].hostHeader

\* C26: checkHost identifies the host by the path variable when the route
\* supplies one and by the host header otherwise, and applies the same
\* lookup, secret check, host/task check and access-time update to the id
\* either way: the outcome depends on the id alone, and only the host of that
\* id is written. (For lookups that meet no storage error.)
C26_HostIdFallback ==
  \A r \in ReqIds :
    LET e == EffectiveHostId(r)
    IN HostLookedUp(r)
       => /\ e # ""
          /\ \A h \in DOMAIN hosts \ {e} : hosts[h] = HostsAtArrival(r)[h]
          /\ e \notin DOMAIN hosts
               => /\ req[r].code = HostNotFoundCode /\ req[r].stoppedBy = "checkHost"
                  /\ req[r].ctxHost = NoHost /\ ~req[r].handlerRan
          /\ e \in DOMAIN hosts
               => /\ (\/ HostSecretRejected(req[r].hostSecret, hosts[e].Secret)
                      \/ HostTaskMismatch(hosts[e], req[r].ctxTask))
                       => /\ req[r].code = StatusConflict
                          /\ req[r].stoppedBy = "checkHost"
                          /\ req[r].ctxHost = NoHost /\ ~req[r].handlerRan
                          /\ hosts = HostsAtArrival(r)
                  /\ (/\ ~HostSecretRejected(req[r].hostSecret, hosts[e].Secret)
                      /\ ~HostTaskMismatch(hosts[e], req[r].ctxTask))
                       => /\ req[r].ctxHost.Id = e /\ ReachedHandler(r)
                          /\ req[r].touchCalls = 1
                          /\ ~req[r].touchFailed
                               => hosts[e].LastCommunicationTime = now

\* the path names h1, which runs the task of the request, and the header
\* names h2: h1 is bound and stamped, h2 is left alone
C26_Witness ==
  \E r \in ReqIds :
    /\ req[r].pathHostId = "h1" /\ req[r].hostHeader = "h2"
    /\ HostLookedUp(r) /\ req[r].ctxHost.Id = "h1" /\ req[r].handlerRan
    /\ ~req[r].touchFailed /\ hosts["h1"].LastCommunicationTime = now
    /\ hosts["h2"] = HostsAtArrival(r)["h2"] /\ now > ZeroTime

\* no path variable: the host of the header is bound and stamped
C26_FallbackReached ==
  \E r \in ReqIds :
    /\ req[r].pathHostId = "" /\ req[r].hostHeader = "h1"
    /\ HostLookedUp(r) /\ req[r].ctxHost.Id = "h1" /\ req[r].handlerRan
    /\ ~req[r].touchFailed /\ hosts["h1"].LastCommunicationTime = now

\* ------------------------------------- concurrent heartbeats, properties

\* Heartbeat has run for the request and has written its reply
HeartbeatDone(r) == req[r].route = "heartbeat" /\ req[r].handlerRan /\ Done(r)

\* a task or a host record without its timestamps
WithoutHeartbeat(t) == [t EXCEPT !.LastHeartbeat = ZeroTime]
WithoutLastCommunication(h) == [h EXCEPT !.LastCommunicationTime = ZeroTime]

\* C21: two concurrent heartbeats for the same task that pass the gate both
\* end with 200, under every interleaving, and leave the heartbeat timestamp
\* of the task equal to the value of the update the store applied last; no
\* request changes the Aborted flag or any field of a task or a host other
\* than the heartbeat and the last-communication timestamps, nor any other
\* collection
C21_LastWriteWins ==
  /\ \A r1 \in ConcurrentReqIds : \A r2 \in ConcurrentReqIds \ {r1} :
       (HeartbeatDone(r1) /\ HeartbeatDone(r2) /\ BoundTask(r1) = BoundTask(r2))
       => LET T == BoundTask(r1)
              applied == {x \in {r1, r2} : req[x].seq > 0}
          IN /\ \A x \in {r1, r2} : req[x].code = StatusOK /\ req[x].kind = "json"
             /\ applied = {}
                  => tasks[T].LastHeartbeat = TasksAtArrival(r1)[T].LastHeartbeat
             /\ \A x \in applied :
                  (\A y \in applied : req[y].seq <= req[x].seq)
                    => tasks[T].LastHeartbeat = req[x].stamp
  /\ \A r \in ConcurrentReqIds :
       req[r].pc # "idle"
       => /\ \A t \in DOMAIN tasks :
               WithoutHeartbeat(tasks[t]) = WithoutHeartbeat(TasksAtArrival(r)[t])
          /\ \A h \in DOMAIN hosts :
               WithoutLastCommunication(hosts[h])
                 = WithoutLastCommunication(HostsAtArrival(r)[h])
          /\ <<testLogs, taskLogs, artifacts, events, notified>>
               = <<TestLogsAtArrival(r), req[r].store0[4], req[r].store0[5],
                   EventsAtArrival(r), NotifiedAtArrival(r)>>

\* both heartbeats for t1 have 200; r1 read the clock before r2 did and its
\* update was applied after that of r2: the task carries the time of r1
C21_Witness ==
  /\ HeartbeatDone("r1") /\ HeartbeatDone("r2")
  /\ BoundTask("r1") = "t1" /\ BoundTask("r2") = "t1"
  /\ req["r1"].stamp < req["r2"].stamp
  /\ req["r2"].seq = 1 /\ req["r1"].seq = 2
  /\ tasks["t1"].LastHeartbeat = req["r1"].stamp
  /\ req["r1"].code = StatusOK /\ req["r2"].code = StatusOK

\* --------------------------------------- request context, properties

\* the task and the host a handler finds bound to the request
GetTask(r) == req[r].ctxTask
GetHost(r) == req[r].ctxHost

\* C23: the task and the host are bound per request: under every
\* interleaving of checkTask, checkHost and the handlers of two concurrent
\* requests, a request sees the task only as its own checkTask bound it and
\* the host only as its own checkHost bound it, and a request whose gate
\* bound nothing sees no task and no host
C23_PerRequestBinding ==
  \A r \in ConcurrentReqIds :
    /\ GetTask(r) # NoTask
         => /\ req[r].taskId \in DOMAIN tasks /\ GetTask(r) = TaskDoc(req[r].taskId)
            /\ req[r].taskFind = "ok" /\ req[r].stoppedBy # "checkTask"
            /\ req[r].pc \notin {"idle", "checkTask"}
    /\ GetHost(r) # NoHost
         => /\ HostIdOf(r) \in DOMAIN hosts /\ GetHost(r) = HostDoc(HostIdOf(r))
            /\ req[r].hostFind = "ok" /\ req[r].stoppedBy = ""
            /\ req[r].pc \in {"handler", "update", "done"}
    /\ (req[r].pc \in {"idle", "checkTask"} \/ req[r].stoppedBy = "checkTask")
         => (GetTask(r) = NoTask /\ GetHost(r) = NoHost)
    /\ (req[r].pc = "checkHost" \/ req[r].stoppedBy = "checkHost"
          \/ (req[r].pc \in {"handler", "update", "done"} /\ HostIdOf(r) = ""))
         => GetHost(r) = NoHost
    /\ req[r].handlerRan
         => /\ GetTask(r).Id = req[r].taskId
            /\ req[r].abort = tasks[req[r].taskId].Aborted

\* r1 holds t1 and h1 and r2 holds t2 and h2 at the same moment, both past
\* their gates
C23_Witness ==
  /\ GetTask("r1").Id = "t1" /\ GetHost("r1").Id = "h1"
  /\ GetTask("r2").Id = "t2" /\ GetHost("r2").Id = "h2"
  /\ req["r1"].pc = "handler" /\ req["r2"].handlerRan

\* r1 was refused by checkTask and sees nothing while r2 holds t2
C23_UnboundReached ==
  /\ req["r1"].stoppedBy = "checkTask" /\ GetTask("r1") = NoTask
  /\ GetHost("r1") = NoHost
  /\ GetTask("r2").Id = "t2" /\ GetHost("r2").Id = "h2"

====
